---- MODULE Spec2Model ----
(***************************************************************************)
(* A model of Trace/Tract: a version-controlled store for LLM context.     *)
(*                                                                         *)
(* The store (commits, blobs, annotations, refs) is one record; `db` is    *)
(* the view of the open SQLAlchemy session (flushed rows included) and     *)
(* `disk` is what the last session.commit() made durable.  A commit hash   *)
(* is the row's position in `commits` (created_at is unique, so two rows   *)
(* never hash alike); a content hash is the payload's number.  0 stands    *)
(* for None wherever a hash or a timestamp is optional.                    *)
(*                                                                         *)
(* `compile_cache` is the dict of trace_context.Repo, `cache` the LRU of   *)
(* tract's CacheManager, `last` the name of the last call with the         *)
(* exception it raised ("" when it returned), `merge_result` the           *)
(* MergeResult the caller holds from its last merge, and `batch` the open   *)
(* Repo.batch blocks, outermost first: while there is one, the session's    *)
(* commit is the no-op the block put in its place.                          *)
(***************************************************************************)
EXTENDS Integers, Sequences, FiniteSets, Bags, TLC

VARIABLES db, disk, compile_cache, cache, last, merge_result, batch

vars == <<db, disk, compile_cache, cache, last, merge_result, batch>>

(***************************************************************************)
(* Bounds of the model.                                                    *)
(***************************************************************************)
\* Commit and annotation rows a Repo session may write (Spec).
MaxRows == 4

\* Commit and annotation rows a Tract session may write (SpecCache).
MaxCacheRows == 4

\* The maxsize the CacheManager of SpecCache is built with.
maxsize == 2

\* Commit rows the callers of SpecRefs may write; a rebase replays on top.
MaxDagRows == 3

\* Commit rows the callers of SpecMerge may write; a merge writes on top.
MaxMergeRows == 3

\* Commit rows the callers of SpecRebase may write; a rebase replays on top.
MaxRebaseRows == 4

\* Commit and annotation rows of the store under SpecStore; a rebase may add
\* its copies on top.
MaxStoreRows == 3

\* Commit rows of the store under SpecHead.
MaxHeadRows == 3

\* HEAD hashes a caller of the cache manager uses as keys under SpecLru.
MaxKeys == 4

(***************************************************************************)
(* Content model.                                                          *)
(***************************************************************************)
Payloads ==
    <<[content_type |-> "instruction", role |-> "system",    text |-> "S"],
      [content_type |-> "dialogue",    role |-> "user",      text |-> "U"],
      [content_type |-> "dialogue",    role |-> "assistant", text |-> "A"],
      [content_type |-> "freeform",    role |-> "assistant", text |-> "R"],
      [content_type |-> "freeform",    role |-> "assistant", text |-> "M"]>>

\* What a caller commits; the freeform payload is what a resolver writes.
ContentHashes == {1, 2, 3}

ResolvedContent == CHOOSE h \in DOMAIN Payloads : Payloads[h].text = "R"

\* The summary a merge commit carries.
SummaryContent == CHOOSE h \in DOMAIN Payloads : Payloads[h].text = "M"

\* The payload a text given by a caller or a resolver becomes.
ContentOfText(text) == CHOOSE h \in DOMAIN Payloads : Payloads[h].text = text

Priorities == {"SKIP", "NORMAL"}

Branches == {"main", "feat"}

Detached == "(detached)"

DefaultTypePriority(content_type) ==
    IF content_type = "instruction" THEN "PINNED" ELSE "NORMAL"

Message(role, content) == [role |-> role, content |-> content, name |-> "None"]

(***************************************************************************)
(* Token counter: one token per message plus one per piece of content.     *)
(***************************************************************************)
RECURSIVE CountMessages(_)
CountMessages(messages) ==
    IF messages = <<>> THEN 0
    ELSE 1 + Len(Head(messages).content) + CountMessages(Tail(messages))

(***************************************************************************)
(* Sequence helpers.                                                       *)
(***************************************************************************)
RECURSIVE Reverse(_)
Reverse(s) == IF s = <<>> THEN <<>> ELSE Reverse(Tail(s)) \o <<Head(s)>>

IndexOf(s, x) ==
    IF \E i \in DOMAIN s : s[i] = x
    THEN CHOOSE i \in DOMAIN s : s[i] = x /\ \A j \in 1..(i - 1) : s[j] # x
    ELSE 0

RemoveAt(s, i) == SubSeq(s, 1, i - 1) \o SubSeq(s, i + 1, Len(s))

Range(s) == {s[i] : i \in DOMAIN s}

(***************************************************************************)
(* Store: SqliteCommitRepository, SqliteBlobRepository, SqliteRefRepository *)
(* and SqliteAnnotationRepository over one session.                        *)
(***************************************************************************)
EmptyStore ==
    [commits        |-> <<>>,
     blobs          |-> EmptyBag,
     annotations    |-> <<>>,
     commit_parents |-> {},
     head           |-> 0,
     prev_head      |-> 0,
     branches       |-> [b \in Branches |-> 0],
     current_branch |-> "main"]

\* The timestamp of the next row: later than every row of the store.
Now(s) == 1 + Len(s.commits) + Len(s.annotations)

CommitGet(s, h) == h \in DOMAIN s.commits

\* SqliteCommitRepository.get_ancestors: the primary parent chain, newest first.
RECURSIVE GetAncestors(_, _)
GetAncestors(s, commit_hash) ==
    IF ~CommitGet(s, commit_hash) THEN <<>>
    ELSE <<commit_hash>> \o GetAncestors(s, s.commits[commit_hash].parent_hash)

\* SqliteBlobRepository.get: there is a row for the hash.
BlobGet(s, content_hash) == BagIn(content_hash, s.blobs)

\* The mutant adds the row without looking for an existing one.
SaveAlways(s, content_hash) ==
    [s EXCEPT !.blobs = @ (+) SetToBag({content_hash})]

\* SqliteBlobRepository.save_if_absent
SaveIfAbsent(s, content_hash) ==
    IF BlobGet(s, content_hash) THEN s
    ELSE [s EXCEPT !.blobs = @ (+) SetToBag({content_hash})]

\* SqliteRefRepository.update_head
UpdateHead(s, commit_hash) == [s EXCEPT !.head = commit_hash]

\* SqliteRefRepository.set_branch
SetBranch(s, branch_name, commit_hash) ==
    [s EXCEPT !.branches[branch_name] = commit_hash]

\* SqliteAnnotationRepository.batch_get_latest: per target the row whose
\* created_at is the maximum over the rows of that target (0: no row).
BatchGetLatest(s, target_hashes) ==
    [t \in DOMAIN s.commits |->
        IF t \in Range(target_hashes)
           /\ \E i \in DOMAIN s.annotations : s.annotations[i].target_hash = t
        THEN CHOOSE i \in DOMAIN s.annotations :
                /\ s.annotations[i].target_hash = t
                /\ \A j \in DOMAIN s.annotations :
                      s.annotations[j].target_hash = t
                        => s.annotations[j].created_at <= s.annotations[i].created_at
        ELSE 0]

(***************************************************************************)
(* Refs beyond sqlite.py: the current-branch marker.                       *)
(***************************************************************************)
GetCurrentBranch(s) == s.current_branch

DetachHead(s, commit_hash) ==
    [s EXCEPT !.current_branch = Detached, !.head = commit_hash]

AttachHead(s, branch_name) ==
    [s EXCEPT !.current_branch = branch_name, !.head = s.branches[branch_name]]

(***************************************************************************)
(* DAG utilities.                                                          *)
(***************************************************************************)
SecondParents(s, h) == {e[2] : e \in {x \in s.commit_parents : x[1] = h}}

\* get_all_ancestors: the commit and everything reachable over both parents.
RECURSIVE GetAllAncestors(_, _)
GetAllAncestors(s, h) ==
    IF ~CommitGet(s, h) THEN {}
    ELSE {h} \cup GetAllAncestors(s, s.commits[h].parent_hash)
             \cup UNION {GetAllAncestors(s, p) : p \in SecondParents(s, h)}

\* find_merge_base: a common ancestor none of whose descendants is common.
FindMergeBase(s, a, b) ==
    LET common == GetAllAncestors(s, a) \cap GetAllAncestors(s, b)
    IN  IF common = {} THEN 0
        ELSE CHOOSE m \in common : \A x \in common : x <= m

\* get_branch_commits: base..tip along the primary chain, oldest first.
GetBranchCommits(s, tip, base) ==
    LET Outside(c) == c \notin GetAllAncestors(s, base)
    IN  SelectSeq(Reverse(GetAncestors(s, tip)), Outside)

(***************************************************************************)
(* Commit engine.  A call returns [err, db]: err = "" on success, and db   *)
(* is the session's view when the call returns or raises.                  *)
(***************************************************************************)
Ok(s) == [err |-> "", db |-> s]
Raise(e, s) == [err |-> e, db |-> s]

\* The mutant accepts any existing commit as the target of an EDIT.
CreateCommitAnyTarget(s, content_hash, operation, response_to, allow_detached) ==
    LET s1  == SaveIfAbsent(s, content_hash)
        new == Len(s.commits) + 1
        row == [parent_hash  |-> s.head,
                content_hash |-> content_hash,
                content_type |-> Payloads[content_hash].content_type,
                operation    |-> operation,
                response_to  |-> IF operation = "EDIT" THEN response_to ELSE 0,
                created_at   |-> Now(s)]
        s2  == [s1 EXCEPT !.commits = Append(@, row)]
        s3  == IF operation = "APPEND" /\ s.current_branch # Detached
               THEN SetBranch(s2, s.current_branch, new) ELSE s2
    IN  IF operation # "EDIT" /\ s.current_branch = Detached /\ ~allow_detached
        THEN Raise("DetachedHeadError", s1)
        ELSE IF operation = "EDIT" /\ ~CommitGet(s, response_to)
        THEN Raise("EditTargetError", s1)
        ELSE Ok(UpdateHead(s3, new))

\* create_commit: blob first, then the EDIT check, then the row and the refs.
CreateCommit(s, content_hash, operation, response_to, allow_detached) ==
    LET s1  == SaveIfAbsent(s, content_hash)
        new == Len(s.commits) + 1
        row == [parent_hash  |-> s.head,
                content_hash |-> content_hash,
                content_type |-> Payloads[content_hash].content_type,
                operation    |-> operation,
                response_to  |-> IF operation = "EDIT" THEN response_to ELSE 0,
                created_at   |-> Now(s)]
        s2  == [s1 EXCEPT !.commits = Append(@, row)]
        s3  == IF operation = "APPEND" /\ s.current_branch # Detached
               THEN SetBranch(s2, s.current_branch, new) ELSE s2
    IN  IF operation # "EDIT" /\ s.current_branch = Detached /\ ~allow_detached
        THEN Raise("DetachedHeadError", s1)
        ELSE IF operation = "EDIT" /\ response_to \notin Range(GetAncestors(s, s.head))
        THEN Raise("EditTargetError", s1)
        ELSE Ok(UpdateHead(s3, new))

\* CommitEngine.annotate: one more annotation row.
EngineAnnotate(s, target_hash, priority) ==
    IF ~CommitGet(s, target_hash) THEN Raise("CommitNotFoundError", s)
    ELSE Ok([s EXCEPT !.annotations =
                Append(@, [target_hash |-> target_hash,
                           priority    |-> priority,
                           created_at  |-> Now(s)])])

\* branch(name, source, switch)
EngineBranch(s, name, source, switch) ==
    IF s.branches[name] # 0 THEN Raise("BranchExistsError", s)
    ELSE IF ~CommitGet(s, source) THEN Raise("CommitNotFoundError", s)
    ELSE LET s1 == SetBranch(s, name, source)
         IN  Ok(IF switch THEN AttachHead(s1, name) ELSE s1)

\* switch(name)
EngineSwitch(s, name) ==
    IF s.branches[name] = 0 THEN Raise("BranchNotFoundError", s)
    ELSE Ok(AttachHead(s, name))

\* The mutant leaves PREV_HEAD as it is.
StorePrevHeadNever(s) == s

\* The PREV_HEAD ref: the commit HEAD is at when a checkout leaves it.
StorePrevHead(s) == [s EXCEPT !.prev_head = s.head]

\* checkout(target): a branch attaches, a commit detaches.
EngineCheckoutBranch(s, name) ==
    IF s.branches[name] = 0 THEN Raise("BranchNotFoundError", s)
    ELSE Ok(AttachHead(StorePrevHead(s), name))

EngineCheckoutCommit(s, commit_hash) ==
    IF ~CommitGet(s, commit_hash) THEN Raise("CommitNotFoundError", s)
    ELSE Ok(DetachHead(StorePrevHead(s), commit_hash))

\* checkout("-"): the commit PREV_HEAD names.
EngineCheckoutPrevious(s) ==
    IF s.prev_head = 0 THEN Raise("TraceError", s)
    ELSE EngineCheckoutCommit(s, s.prev_head)

\* The mutant deletes the current branch like any other.
EngineDeleteBranchAnyBranch(s, name, force) ==
    LET tip == s.branches[name]
        MergedInto(b) == /\ b # name
                         /\ s.branches[b] # 0
                         /\ tip \in GetAllAncestors(s, s.branches[b])
    IN  IF tip = 0 THEN Raise("BranchNotFoundError", s)
        ELSE IF ~force /\ ~\E b \in Branches : MergedInto(b) THEN Raise("TraceError", s)
        ELSE Ok(SetBranch(s, name, 0))

\* delete_branch(name, force): the ref goes, the commits stay.
EngineDeleteBranch(s, name, force) ==
    LET tip == s.branches[name]
        MergedInto(b) == /\ b # name
                         /\ s.branches[b] # 0
                         /\ tip \in GetAllAncestors(s, s.branches[b])
    IN  IF tip = 0 THEN Raise("BranchNotFoundError", s)
        ELSE IF name = GetCurrentBranch(s) THEN Raise("TraceError", s)
        ELSE IF ~force /\ ~\E b \in Branches : MergedInto(b) THEN Raise("TraceError", s)
        ELSE Ok(SetBranch(s, name, 0))

ResetModes == {"soft", "hard"}

\* The mutant moves HEAD and leaves the branch ref behind.
EngineResetHeadOnly(s, target, mode) ==
    IF ~CommitGet(s, target) THEN Raise("CommitNotFoundError", s)
    ELSE Ok(UpdateHead(s, target))

\* reset(target, mode): soft and hard alike.
EngineReset(s, target, mode) ==
    IF ~CommitGet(s, target) THEN Raise("CommitNotFoundError", s)
    ELSE Ok(UpdateHead(IF s.current_branch # Detached
                       THEN SetBranch(s, s.current_branch, target) ELSE s,
                       target))

(***************************************************************************)
(* DefaultContextCompiler.                                                 *)
(***************************************************************************)
\* _walk_chain: root-first chain, cut after up_to, filtered by as_of.
WalkChain(s, head_hash, as_of, up_to) ==
    LET commits == Reverse(GetAncestors(s, head_hash))
        k       == IndexOf(commits, up_to)
        cut     == IF up_to # 0 /\ k # 0 THEN SubSeq(commits, 1, k) ELSE commits
        InTime(c) == s.commits[c].created_at <= as_of
    IN  IF as_of # 0 THEN SelectSeq(cut, InTime) ELSE cut

\* The mutant keeps the earliest edit of a target instead of the latest.
RECURSIVE BuildEditMapEarliest(_, _, _)
BuildEditMapEarliest(s, commits, as_of) ==
    IF commits = <<>> THEN [t \in DOMAIN s.commits |-> 0]
    ELSE LET n         == Len(commits)
             c         == commits[n]
             row       == s.commits[c]
             edit_map  == BuildEditMapEarliest(s, SubSeq(commits, 1, n - 1), as_of)
         IN  IF row.operation = "EDIT" /\ row.response_to # 0
             THEN IF as_of # 0 /\ row.created_at > as_of THEN edit_map
                  ELSE LET existing == edit_map[row.response_to]
                       IN  IF existing = 0
                              \/ row.created_at < s.commits[existing].created_at
                           THEN [edit_map EXCEPT ![row.response_to] = c]
                           ELSE edit_map
             ELSE edit_map

\* _build_edit_map: target -> the edit with the latest created_at (0: none).
RECURSIVE BuildEditMap(_, _, _)
BuildEditMap(s, commits, as_of) ==
    IF commits = <<>> THEN [t \in DOMAIN s.commits |-> 0]
    ELSE LET n         == Len(commits)
             c         == commits[n]
             row       == s.commits[c]
             edit_map  == BuildEditMap(s, SubSeq(commits, 1, n - 1), as_of)
         IN  IF row.operation = "EDIT" /\ row.response_to # 0
             THEN IF as_of # 0 /\ row.created_at > as_of THEN edit_map
                  ELSE LET existing == edit_map[row.response_to]
                       IN  IF existing = 0
                              \/ row.created_at > s.commits[existing].created_at
                           THEN [edit_map EXCEPT ![row.response_to] = c]
                           ELSE edit_map
             ELSE edit_map

\* _build_priority_map: the latest annotation, dropped when it is newer than
\* as_of, else the content type's default.
BuildPriorityMap(s, commits, as_of) ==
    LET annotations == BatchGetLatest(s, commits)
    IN  [c \in Range(commits) |->
            LET a == annotations[c]
                annotation ==
                    IF a # 0 /\ as_of # 0 /\ s.annotations[a].created_at > as_of
                    THEN 0 ELSE a
            IN  IF annotation # 0 THEN s.annotations[annotation].priority
                ELSE DefaultTypePriority(s.commits[c].content_type)]

\* _build_effective_commits: drop EDIT commits and SKIP commits.
BuildEffectiveCommits(s, commits, edit_map, priority_map) ==
    LET Keep(c) == s.commits[c].operation # "EDIT" /\ priority_map[c] # "SKIP"
    IN  SelectSeq(commits, Keep)

\* _map_role
MapRole(content_type, content_data) ==
    IF content_type = "dialogue" THEN content_data.role
    ELSE IF content_type = "tool_io" THEN "tool"
    ELSE IF content_type = "instruction" THEN "system"
    ELSE "assistant"

\* _extract_message_text: the text field, or the payload of a freeform as JSON.
ExtractMessageText(content_type, content_data) ==
    IF content_type = "freeform" THEN <<"{\"text\": \"", content_data.text, "\"}">>
    ELSE <<content_data.text>>

\* build_message_for_commit
BuildMessageForCommit(s, commit_hash) ==
    LET content_hash == s.commits[commit_hash].content_hash
    IN  IF ~BlobGet(s, content_hash)
        THEN Message("system", <<"[missing content]">>)
        ELSE LET content_data == Payloads[content_hash]
                 content_type == content_data.content_type
             IN  Message(MapRole(content_type, content_data),
                         ExtractMessageText(content_type, content_data))

\* _build_messages
BuildMessages(s, effective_commits, edit_map, include_edit_annotations) ==
    [i \in DOMAIN effective_commits |->
        LET c             == effective_commits[i]
            source_commit == IF edit_map[c] # 0 THEN edit_map[c] ELSE c
            msg           == BuildMessageForCommit(s, source_commit)
        IN  IF include_edit_annotations /\ edit_map[c] # 0
            THEN [msg EXCEPT !.content = @ \o <<" [edited]">>]
            ELSE msg]

\* The mutant merges a message into the one before it only once per run.
RECURSIVE AggregateMessagesInPairs(_)
AggregateMessagesInPairs(messages) ==
    IF Len(messages) <= 1 THEN messages
    ELSE IF messages[1].role = messages[2].role
    THEN <<[messages[1] EXCEPT !.content = @ \o <<"\n\n">> \o messages[2].content]>>
            \o AggregateMessagesInPairs(SubSeq(messages, 3, Len(messages)))
    ELSE <<messages[1]>> \o AggregateMessagesInPairs(Tail(messages))

\* _aggregate_messages: consecutive same-role messages become one.
RECURSIVE AggregateMessages(_)
AggregateMessages(messages) ==
    IF Len(messages) <= 1 THEN messages
    ELSE LET n    == Len(messages)
             agg  == AggregateMessages(SubSeq(messages, 1, n - 1))
             cur  == agg[Len(agg)]
             msg  == messages[n]
         IN  IF msg.role = cur.role
             THEN [agg EXCEPT ![Len(agg)].content = cur.content \o <<"\n\n">> \o msg.content]
             ELSE Append(agg, msg)

EmptyContext ==
    [messages |-> <<>>, token_count |-> 0, commit_count |-> 0,
     generation_configs |-> <<>>, commit_hashes |-> <<>>]

\* DefaultContextCompiler.compile
Compile(s, head_hash, as_of, up_to, include_edit_annotations) ==
    LET commits == WalkChain(s, head_hash, as_of, up_to)
    IN  IF commits = <<>> THEN EmptyContext
        ELSE LET edit_map     == BuildEditMap(s, commits, as_of)
                 priority_map == BuildPriorityMap(s, commits, as_of)
                 effective    == BuildEffectiveCommits(s, commits, edit_map, priority_map)
                 messages     == AggregateMessages(
                                   BuildMessages(s, effective, edit_map,
                                                 include_edit_annotations))
             IN  [messages           |-> messages,
                  token_count        |-> CountMessages(messages),
                  commit_count       |-> Len(effective),
                  generation_configs |-> <<>>,
                  commit_hashes      |-> <<>>]

FullCompile(s, head_hash) == Compile(s, head_hash, 0, 0, FALSE)

(***************************************************************************)
(* CacheManager (engine/cache.py).  The OrderedDict is a sequence of        *)
(* snapshots, least recently used first.                                   *)
(***************************************************************************)
NoSnapshot == [head_hash |-> 0]

EmptyConfig == <<>>

Has(c, head_hash) == \E i \in DOMAIN c : c[i].head_hash = head_hash

Without(c, head_hash) ==
    LET Other(e) == e.head_hash # head_hash
    IN  SelectSeq(c, Other)

\* OrderedDict.move_to_end
MoveToEnd(c, head_hash) ==
    LET Same(e) == e.head_hash = head_hash
    IN  Without(c, head_hash) \o SelectSeq(c, Same)

\* The mutant looks a snapshot up without marking the key as used.
GetWithoutMove(c, head_hash) ==
    IF ~Has(c, head_hash) THEN [snapshot |-> NoSnapshot, cache |-> c]
    ELSE [snapshot |-> c[CHOOSE i \in DOMAIN c : c[i].head_hash = head_hash],
          cache    |-> c]

\* CacheManager.get: the snapshot, and the cache with the key moved last.
Get(c, head_hash) ==
    IF ~Has(c, head_hash) THEN [snapshot |-> NoSnapshot, cache |-> c]
    ELSE [snapshot |-> c[CHOOSE i \in DOMAIN c : c[i].head_hash = head_hash],
          cache    |-> MoveToEnd(c, head_hash)]

\* The mutant makes room at the back, where the most recently used keys are.
PutEvictNewest(c, head_hash, snapshot) ==
    LET kept == Without(c, head_hash)
    IN  IF Len(kept) + 1 > maxsize
        THEN SubSeq(kept, 1, maxsize - 1) \o <<snapshot>>
        ELSE kept \o <<snapshot>>

\* CacheManager.put: insert last, then evict from the front down to maxsize.
Put(c, head_hash, snapshot) ==
    LET stored == Without(c, head_hash) \o <<snapshot>>
    IN  IF Len(stored) > maxsize
        THEN SubSeq(stored, Len(stored) - maxsize + 1, Len(stored))
        ELSE stored

\* CacheManager.to_compiled
ToCompiled(snapshot) ==
    [messages           |-> snapshot.messages,
     token_count        |-> snapshot.token_count,
     commit_count       |-> snapshot.commit_count,
     generation_configs |-> snapshot.generation_configs,
     commit_hashes      |-> snapshot.commit_hashes]

\* CacheManager.build_snapshot
BuildSnapshot(head_hash, result) ==
    [head_hash          |-> head_hash,
     messages           |-> result.messages,
     commit_count       |-> result.commit_count,
     token_count        |-> result.token_count,
     generation_configs |-> result.generation_configs,
     commit_hashes      |-> result.commit_hashes]

\* CacheManager.extend_for_append: the snapshot it puts under the new HEAD.
ExtendForAppend(s, commit_hash, parent_snapshot) ==
    LET new_message  == BuildMessageForCommit(s, commit_hash)
        new_messages == Append(parent_snapshot.messages, new_message)
    IN  [head_hash          |-> commit_hash,
         messages           |-> new_messages,
         commit_count       |-> parent_snapshot.commit_count + 1,
         token_count        |-> CountMessages(new_messages),
         generation_configs |-> Append(parent_snapshot.generation_configs, EmptyConfig),
         commit_hashes      |-> Append(parent_snapshot.commit_hashes, commit_hash)]

\* CacheManager.patch_for_edit; NoSnapshot stands for None.
PatchForEdit(s, parent_snapshot, new_head_hash, edit_row) ==
    LET target_hash  == s.commits[edit_row].response_to
        target_idx   == IndexOf(parent_snapshot.commit_hashes, target_hash)
        new_message  == BuildMessageForCommit(s, edit_row)
        new_messages == [parent_snapshot.messages EXCEPT ![target_idx] = new_message]
    IN  IF parent_snapshot.commit_hashes = <<>> THEN NoSnapshot
        ELSE IF target_hash = 0 THEN NoSnapshot
        ELSE IF target_idx = 0 THEN NoSnapshot
        ELSE [parent_snapshot EXCEPT
                 !.head_hash   = new_head_hash,
                 !.messages    = new_messages,
                 !.token_count = CountMessages(new_messages)]

\* The mutant keeps the snapshot when a commit that is not in it is included again.
PatchForAnnotateKeeps(snapshot, target_hash, new_priority) ==
    LET target_idx   == IndexOf(snapshot.commit_hashes, target_hash)
        new_messages == RemoveAt(snapshot.messages, target_idx)
    IN  IF new_priority = "SKIP" /\ target_idx # 0
        THEN [snapshot EXCEPT
                 !.messages           = new_messages,
                 !.commit_count       = @ - 1,
                 !.token_count        = CountMessages(new_messages),
                 !.generation_configs = RemoveAt(@, target_idx),
                 !.commit_hashes      = RemoveAt(@, target_idx)]
        ELSE snapshot

\* CacheManager.patch_for_annotate; NoSnapshot stands for None.
PatchForAnnotate(snapshot, target_hash, new_priority) ==
    LET target_idx   == IndexOf(snapshot.commit_hashes, target_hash)
        new_messages == RemoveAt(snapshot.messages, target_idx)
    IN  IF snapshot.commit_hashes = <<>> THEN NoSnapshot
        ELSE IF new_priority = "SKIP"
        THEN IF target_idx = 0 THEN snapshot
             ELSE [snapshot EXCEPT
                      !.messages           = new_messages,
                      !.commit_count       = @ - 1,
                      !.token_count        = CountMessages(new_messages),
                      !.generation_configs = RemoveAt(@, target_idx),
                      !.commit_hashes      = RemoveAt(@, target_idx)]
        ELSE IF target_idx # 0 THEN snapshot ELSE NoSnapshot

(***************************************************************************)
(* Rebase and cherry-pick (operations/rebase.py).                          *)
(***************************************************************************)
\* The mutant moves the original row onto HEAD instead of copying it.
ReplayCommitInPlace(s, original, response_to_remap, allow_detached) ==
    Ok(UpdateHead([s EXCEPT !.commits[original].parent_hash = s.head], original))

\* replay_commit; allow_detached is the leave a rebase has to create commits
\* on the HEAD it detached (create_commit, step 2).
ReplayCommit(s, original, response_to_remap, allow_detached) ==
    LET original_row == s.commits[original]
        response_to  == IF response_to_remap # 0 THEN response_to_remap
                        ELSE original_row.response_to
    IN  IF ~BlobGet(s, original_row.content_hash) THEN Raise("RebaseError", s)
        ELSE CreateCommit(s, original_row.content_hash, original_row.operation,
                          IF original_row.operation = "EDIT" THEN response_to ELSE 0,
                          allow_detached)

\* The mutant replays every commit onto the HEAD the loop started from.
RECURSIVE ReplayAllOntoStart(_, _)
ReplayAllOntoStart(s, commits_to_replay) ==
    IF commits_to_replay = <<>> THEN Ok(s)
    ELSE LET r == ReplayCommit(s, Head(commits_to_replay), 0, TRUE)
         IN  IF r.err # "" \/ Tail(commits_to_replay) = <<>> THEN r
             ELSE ReplayAllOntoStart(UpdateHead(r.db, s.head), Tail(commits_to_replay))

\* The replay loop of rebase: each commit onto the HEAD the last one left.
RECURSIVE ReplayAll(_, _)
ReplayAll(s, commits_to_replay) ==
    IF commits_to_replay = <<>> THEN Ok(s)
    ELSE LET r == ReplayCommit(s, Head(commits_to_replay), 0, TRUE)
         IN  IF r.err # "" THEN r ELSE ReplayAll(r.db, Tail(commits_to_replay))

\* The mutant replays the whole branch whether or not there is a merge base.
CommitsToReplayWholeBranch(s, target_tip) == Reverse(GetAncestors(s, s.head))

\* rebase: the commits merge_base..current_tip, oldest first, or the whole
\* branch when the two tips have no common ancestor.
CommitsToReplay(s, target_tip) ==
    LET merge_base == FindMergeBase(s, s.head, target_tip)
    IN  IF merge_base # 0 THEN GetBranchCommits(s, s.head, merge_base)
        ELSE Reverse(GetAncestors(s, s.head))

RebaseWarnings(s, commits_to_replay, target_tip) ==
    LET target_ancestors == GetAllAncestors(s, target_tip)
        Missing(c) == /\ s.commits[c].operation = "EDIT"
                      /\ s.commits[c].response_to # 0
                      /\ s.commits[c].response_to \notin target_ancestors
    IN  SelectSeq(commits_to_replay, Missing)

\* The mutant returns early only when the two tips are the same commit.
NothingToReplaySameTip(s, current_tip, target_tip) == current_tip = target_tip

\* The early returns of rebase: the target tip is the current tip or the
\* merge base of the two.
NothingToReplay(s, current_tip, target_tip) ==
    \/ current_tip = target_tip
    \/ FindMergeBase(s, current_tip, target_tip) = target_tip

\* The mutant lets merge commits through the pre-flight.
HasMergeCommitUnchecked(s, commits_to_replay) == FALSE

\* The pre-flight of rebase: a commit to replay carries a second parent.
HasMergeCommit(s, commits_to_replay) ==
    \E i \in DOMAIN commits_to_replay : SecondParents(s, commits_to_replay[i]) # {}

\* The mutant puts the branch ref back and leaves HEAD where the replay stopped.
RestoreBranchRefOnly(s, current_branch, current_tip) ==
    SetBranch(s, current_branch, current_tip)

\* The except clause of rebase: the branch back at its tip, HEAD attached.
RestoreBranch(s, current_branch, current_tip) ==
    AttachHead(SetBranch(s, current_branch, current_tip), current_branch)

\* rebase; resolver is "none", or the action it answers to every warning.
Rebase(s, target_branch, resolver) ==
    LET current_branch == GetCurrentBranch(s)
        current_tip    == s.head
        target_tip     == s.branches[target_branch]
        commits_to_replay == CommitsToReplay(s, target_tip)
        warnings       == RebaseWarnings(s, commits_to_replay, target_tip)
        replayed       == ReplayAll(DetachHead(s, target_tip), commits_to_replay)
        new_head       == replayed.db.head
    IN  IF current_branch = Detached THEN Raise("RebaseError", s)
        ELSE IF current_tip = 0 THEN Raise("RebaseError", s)
        ELSE IF target_tip = 0 THEN Raise("BranchNotFoundError", s)
        ELSE IF NothingToReplay(s, current_tip, target_tip) THEN Ok(s)
        ELSE IF commits_to_replay = <<>> THEN Ok(s)
        ELSE IF HasMergeCommit(s, commits_to_replay) THEN Raise("RebaseError", s)
        ELSE IF warnings # <<>> /\ resolver = "none" THEN Raise("SemanticSafetyError", s)
        ELSE IF warnings # <<>> /\ resolver = "abort" THEN Raise("RebaseError", s)
        ELSE IF replayed.err # ""
        THEN Raise(replayed.err, RestoreBranch(replayed.db, current_branch, current_tip))
        ELSE Ok(AttachHead(SetBranch(replayed.db, current_branch, new_head),
                           current_branch))

\* The EDIT target check of cherry_pick: the target is missing from HEAD.
CherryPickIssue(s, commit_hash) ==
    /\ s.commits[commit_hash].operation = "EDIT"
    /\ s.commits[commit_hash].response_to # 0
    /\ \/ s.head = 0
       \/ s.commits[commit_hash].response_to \notin GetAllAncestors(s, s.head)

\* The mutant replays the original commit whatever content the resolver gave.
CherryPickReplaysOriginal(s, commit_hash, resolver) ==
    IF ~CommitGet(s, commit_hash) THEN Raise("CherryPickError", s)
    ELSE IF CherryPickIssue(s, commit_hash) /\ resolver \in {"none", "abort"}
    THEN Raise("CherryPickError", s)
    ELSE IF CherryPickIssue(s, commit_hash) /\ resolver = "skip" THEN Ok(s)
    ELSE ReplayCommit(s, commit_hash, 0, FALSE)

\* cherry_pick; resolver is "none", or what it answers to the issue: "abort",
\* "skip", "resolved" (with a content_text) or "resolved_no_text".
CherryPick(s, commit_hash, resolver) ==
    IF ~CommitGet(s, commit_hash) THEN Raise("CherryPickError", s)
    ELSE IF CherryPickIssue(s, commit_hash) /\ resolver \in {"none", "abort"}
    THEN Raise("CherryPickError", s)
    ELSE IF CherryPickIssue(s, commit_hash) /\ resolver = "skip" THEN Ok(s)
    ELSE IF CherryPickIssue(s, commit_hash) /\ resolver = "resolved"
    THEN CreateCommit(s, ResolvedContent, "APPEND", 0, FALSE)
    ELSE ReplayCommit(s, commit_hash, 0, FALSE)

(***************************************************************************)
(* The session.                                                            *)
(***************************************************************************)
NoCache == <<>>

\* dict[k] = v
SetItem(f, k, v) == [x \in DOMAIN f \cup {k} |-> IF x = k THEN v ELSE f[x]]

Result(op, err) == [op |-> op, err |-> err]

(***************************************************************************)
(* Merge engine.  A merge returns [err, db, result]; result is the         *)
(* MergeResult (models/merge.py) handed to the caller.                     *)
(***************************************************************************)
NoResult == [merge_type |-> "none"]

\* The EDIT commits of one side that target t.
SideEdits(s, side, t) ==
    {c \in Range(side) :
        s.commits[c].operation = "EDIT" /\ s.commits[c].response_to = t}

\* The effective priority of t is SKIP.
AnnotatedSkip(s, t) ==
    LET a == BatchGetLatest(s, <<t>>)[t]
    IN  a # 0 /\ s.annotations[a].priority = "SKIP"

\* The mutant reports every target edited on both sides, equal content or not.
BothEditAnyContent(s, ours, theirs) ==
    {t \in DOMAIN s.commits :
        SideEdits(s, ours, t) # {} /\ SideEdits(s, theirs, t) # {}}

\* both_edit: both sides have an EDIT to the same target with different
\* content.
BothEdit(s, ours, theirs) ==
    {t \in DOMAIN s.commits :
        \E a \in SideEdits(s, ours, t), b \in SideEdits(s, theirs, t) :
            s.commits[a].content_hash # s.commits[b].content_hash}

\* skip_vs_edit: one side edits a target the other has annotated SKIP.
SkipVsEdit(s, ours, theirs) ==
    {t \in DOMAIN s.commits :
        /\ AnnotatedSkip(s, t)
        /\ (SideEdits(s, ours, t) = {}) # (SideEdits(s, theirs, t) = {})}

Conflicts(s, ours, theirs) ==
    {[conflict_type |-> "both_edit", target_hash |-> t] :
        t \in BothEdit(s, ours, theirs)}
    \cup {[conflict_type |-> "skip_vs_edit", target_hash |-> t] :
        t \in SkipVsEdit(s, ours, theirs)}

MergeResult(merge_type, s, source_branch, merge_base, conflicts, committed, merge_commit_hash) ==
    [merge_type        |-> merge_type,
     source_branch     |-> source_branch,
     target_branch     |-> GetCurrentBranch(s),
     merge_base_hash   |-> merge_base,
     conflicts         |-> conflicts,
     resolutions       |-> <<>>,
     committed         |-> committed,
     merge_commit_hash |-> merge_commit_hash,
     source_tip_hash   |-> s.branches[source_branch],
     target_tip_hash   |-> s.head]

\* MergeResult.edit_resolution
EditResolution(result, target_hash, new_content) ==
    [result EXCEPT !.resolutions = SetItem(@, target_hash, new_content)]

\* Replay EDITs onto HEAD in their original order.
RECURSIVE ReplayEdits(_, _)
ReplayEdits(s, edits) ==
    IF edits = <<>> THEN Ok(s)
    ELSE LET row == s.commits[Head(edits)]
             r   == CreateCommit(s, row.content_hash, "EDIT", row.response_to, FALSE)
         IN  IF r.err # "" THEN r ELSE ReplayEdits(r.db, Tail(edits))

\* The mutant writes the edge from the source tip to the merge commit.
CreateMergeCommitReversed(s, source_tip) ==
    LET r == CreateCommit(s, SummaryContent, "APPEND", 0, FALSE)
    IN  IF r.err # "" THEN r
        ELSE Ok([r.db EXCEPT !.commit_parents = @ \cup {<<source_tip, r.db.head>>}])

\* The merge commit: primary parent HEAD, second parent in the edge table.
CreateMergeCommit(s, source_tip) ==
    LET r == CreateCommit(s, SummaryContent, "APPEND", 0, FALSE)
    IN  IF r.err # "" THEN r
        ELSE Ok([r.db EXCEPT !.commit_parents = @ \cup {<<r.db.head, source_tip>>}])

\* Already up to date: the source tip is an ancestor of the target tip.
AlreadyUpToDate(s, target_tip, source_tip) ==
    source_tip \in GetAllAncestors(s, target_tip)

\* The mutant moves HEAD and leaves the branch ref behind.
FastForwardHeadOnly(s, source_tip) == UpdateHead(s, source_tip)

\* Fast-forward: the current branch and HEAD move to the source tip.
FastForward(s, source_tip) ==
    UpdateHead(SetBranch(s, GetCurrentBranch(s), source_tip), source_tip)

\* merge(source_branch, no_ff) without a resolver.
Merge(s, source_branch, no_ff) ==
    LET target_tip == s.head
        source_tip == s.branches[source_branch]
        merge_base == FindMergeBase(s, target_tip, source_tip)
        ours       == GetBranchCommits(s, target_tip, merge_base)
        theirs     == GetBranchCommits(s, source_tip, merge_base)
        conflicts  == Conflicts(s, ours, theirs)
        Carried(c) == /\ s.commits[c].operation = "EDIT"
                      /\ s.commits[c].response_to \in Range(GetAncestors(s, target_tip))
        replayed   == ReplayEdits(s, SelectSeq(theirs, Carried))
        merged     == CreateMergeCommit(replayed.db, source_tip)
        Failed(e)  == [err |-> e, db |-> s, result |-> NoResult]
    IN  IF GetCurrentBranch(s) = Detached THEN Failed("DetachedHeadError")
        ELSE IF source_tip = 0 THEN Failed("BranchNotFoundError")
        ELSE IF AlreadyUpToDate(s, target_tip, source_tip)
        THEN Failed("NothingToMergeError")
        ELSE IF target_tip \in GetAllAncestors(s, source_tip) /\ ~no_ff
        THEN [err |-> "",
              db  |-> FastForward(s, source_tip),
              result |-> MergeResult("fast_forward", s, source_branch, merge_base,
                                     {}, TRUE, 0)]
        ELSE IF conflicts # {}
        THEN [err |-> "", db |-> s,
              result |-> MergeResult("conflict", s, source_branch, merge_base,
                                     conflicts, FALSE, 0)]
        ELSE IF replayed.err # "" THEN Failed(replayed.err)
        ELSE IF merged.err # "" THEN Failed(merged.err)
        ELSE [err |-> "", db |-> merged.db,
              result |-> MergeResult("clean", s, source_branch, merge_base,
                                     {}, TRUE, merged.db.head)]

\* The resolved targets of a result, in the order of their hashes.
RECURSIVE ResolvedTargets(_, _)
ResolvedTargets(result, from) ==
    IF \A t \in DOMAIN result.resolutions : t < from THEN <<>>
    ELSE LET t == CHOOSE x \in DOMAIN result.resolutions :
                      x >= from /\ \A y \in DOMAIN result.resolutions : y >= from => x <= y
         IN  <<t>> \o ResolvedTargets(result, t + 1)

\* One EDIT per resolved target, onto HEAD.
RECURSIVE WriteResolutions(_, _, _)
WriteResolutions(s, result, targets) ==
    IF targets = <<>> THEN Ok(s)
    ELSE LET r == CreateCommit(s, ContentOfText(result.resolutions[Head(targets)]),
                               "EDIT", Head(targets), FALSE)
         IN  IF r.err # "" THEN r ELSE WriteResolutions(r.db, result, Tail(targets))

\* commit_merge(result): the EDITs of the resolutions, then the merge commit.
CommitMerge(s, result) ==
    LET resolved == WriteResolutions(s, result, ResolvedTargets(result, 0))
        merged   == CreateMergeCommit(resolved.db, result.source_tip_hash)
    IN  IF result.committed THEN [err |-> "MergeError", db |-> s, result |-> result]
        ELSE IF resolved.err # ""
        THEN [err |-> resolved.err, db |-> resolved.db, result |-> result]
        ELSE IF merged.err # ""
        THEN [err |-> merged.err, db |-> merged.db, result |-> result]
        ELSE [err |-> "", db |-> merged.db,
              result |-> [result EXCEPT !.committed = TRUE,
                                        !.merge_commit_hash = merged.db.head]]

Init ==
    /\ db = EmptyStore
    /\ disk = EmptyStore
    /\ compile_cache = NoCache
    /\ cache = <<>>
    /\ last = Result("open", "")
    /\ merge_result = NoResult
    /\ batch = <<>>

\* self._session.commit(): what is durable after it, the session holding s;
\* inside a batch block it is the no-op.
SessionCommit(s) == IF batch = <<>> THEN s ELSE disk

\* Repo.commit: create_commit, session.commit(), clear the compile cache; an
\* exception of create_commit leaves the method before any of the other two.
RepoCommit(content_hash, operation, reply_to) ==
    /\ LET r == CreateCommit(db, content_hash, operation, reply_to, FALSE)
       IN  /\ db' = r.db
           /\ disk' = IF r.err = "" THEN SessionCommit(r.db) ELSE disk
           /\ compile_cache' = IF r.err = "" THEN NoCache ELSE compile_cache
           /\ last' = Result("commit", r.err)
    /\ UNCHANGED <<cache, merge_result, batch>>

\* What Repo.compile returns and what it leaves in the compile cache.
RepoCompileOut(s, cc, as_of, up_to, include_edit_annotations) ==
    IF s.head = 0 THEN EmptyContext
    ELSE IF as_of = 0 /\ up_to = 0 /\ s.head \in DOMAIN cc THEN cc[s.head]
    ELSE Compile(s, s.head, as_of, up_to, include_edit_annotations)

\* Repo.compile
RepoCompile(as_of, up_to, include_edit_annotations) ==
    /\ ~(as_of # 0 /\ up_to # 0)
    /\ LET out == RepoCompileOut(db, compile_cache, as_of, up_to,
                                 include_edit_annotations)
       IN  /\ compile_cache' =
                 IF db.head # 0 /\ as_of = 0 /\ up_to = 0
                 THEN SetItem(compile_cache, db.head, out) ELSE compile_cache
           /\ last' = Result("compile", "")
    /\ UNCHANGED <<db, disk, cache, merge_result, batch>>

\* The mutant leaves the compile cache as it is.
RepoAnnotateKeepsCache(target_hash, priority) ==
    /\ LET r == EngineAnnotate(db, target_hash, priority)
       IN  /\ db' = r.db
           /\ disk' = IF r.err = "" THEN SessionCommit(r.db) ELSE disk
           /\ last' = Result("annotate", r.err)
    /\ UNCHANGED <<compile_cache, cache, merge_result, batch>>

\* Repo.annotate
RepoAnnotate(target_hash, priority) ==
    /\ LET r == EngineAnnotate(db, target_hash, priority)
       IN  /\ db' = r.db
           /\ disk' = IF r.err = "" THEN SessionCommit(r.db) ELSE disk
           /\ compile_cache' = IF r.err = "" THEN NoCache ELSE compile_cache
           /\ last' = Result("annotate", r.err)
    /\ UNCHANGED <<cache, merge_result, batch>>

\* Repo.close and Repo.open on the same path and id.
Reopen ==
    /\ db' = disk
    /\ compile_cache' = NoCache
    /\ last' = Result("open", "")
    /\ UNCHANGED <<disk, cache, merge_result, batch>>

\* A mutating call of the facade: one transaction, committed on success and
\* rolled back on an exception.
Transact(op, r) ==
    /\ db' = IF r.err = "" THEN r.db ELSE disk
    /\ disk' = IF r.err = "" THEN r.db ELSE disk
    /\ last' = Result(op, r.err)
    /\ UNCHANGED <<compile_cache, cache, merge_result, batch>>

DoBranch(name, source, switch) == Transact("branch", EngineBranch(db, name, source, switch))

DoSwitch(name) == Transact("switch", EngineSwitch(db, name))

DoCheckoutBranch(name) == Transact("checkout", EngineCheckoutBranch(db, name))

DoCheckoutCommit(commit_hash) == Transact("checkout", EngineCheckoutCommit(db, commit_hash))

DoCheckoutPrevious == Transact("checkout -", EngineCheckoutPrevious(db))

DoReset(target, mode) == Transact("reset", EngineReset(db, target, mode))

DoDeleteBranch(name, force) == Transact("delete_branch", EngineDeleteBranch(db, name, force))

DoRebase(target_branch, resolver) == Transact("rebase", Rebase(db, target_branch, resolver))

DoCherryPick(commit_hash, resolver) ==
    Transact("cherry_pick", CherryPick(db, commit_hash, resolver))

\* The mutant finalizes every merge at once, conflicts or not.
DoMergeAutoCommit(source_branch, no_ff) ==
    /\ LET m == Merge(db, source_branch, no_ff)
           r == IF m.err = "" /\ ~m.result.committed
                THEN CommitMerge(m.db, m.result) ELSE m
       IN  /\ db' = IF r.err = "" THEN r.db ELSE disk
           /\ disk' = IF r.err = "" THEN r.db ELSE disk
           /\ merge_result' = IF r.err = "" THEN r.result ELSE merge_result
           /\ cache' = IF r.err = "" /\ r.result.merge_commit_hash # 0
                       THEN <<>> ELSE cache
           /\ last' = Result("merge", r.err)
    /\ UNCHANGED <<compile_cache, batch>>

\* Tract.merge: one transaction; the caller keeps the MergeResult.
DoMerge(source_branch, no_ff) ==
    /\ LET r == Merge(db, source_branch, no_ff)
       IN  /\ db' = IF r.err = "" THEN r.db ELSE disk
           /\ disk' = IF r.err = "" THEN r.db ELSE disk
           /\ merge_result' = IF r.err = "" THEN r.result ELSE merge_result
           /\ cache' = IF r.err = "" /\ r.result.merge_commit_hash # 0
                       THEN <<>> ELSE cache
           /\ last' = Result("merge", r.err)
    /\ UNCHANGED <<compile_cache, batch>>

\* MergeResult.edit_resolution on the result the caller holds.
DoEditResolution(target_hash, new_content) ==
    /\ merge_result # NoResult
    /\ merge_result' = EditResolution(merge_result, target_hash, new_content)
    /\ last' = Result("edit_resolution", "")
    /\ UNCHANGED <<db, disk, compile_cache, cache, batch>>

\* Tract.commit_merge: one transaction; the target's cache is invalidated.
DoCommitMerge ==
    /\ merge_result # NoResult
    /\ LET r == CommitMerge(db, merge_result)
       IN  /\ db' = IF r.err = "" THEN r.db ELSE disk
           /\ disk' = IF r.err = "" THEN r.db ELSE disk
           /\ merge_result' = IF r.err = "" THEN r.result ELSE merge_result
           /\ cache' = IF r.err = "" THEN <<>> ELSE cache
           /\ last' = Result("commit_merge", r.err)
    /\ UNCHANGED <<compile_cache, batch>>

\* What the merge command prints and its exit code.
CliResult(output, exit_code) ==
    [op |-> "tract merge", err |-> "", output |-> output, exit_code |-> exit_code]

\* The mutant has no handler of its own for NothingToMergeError.
MergeCommandNoHandler(s, source, no_ff) ==
    LET r == Merge(s, source, no_ff)
    IN  [db     |-> r.db,
         result |-> r.result,
         out    |-> IF r.err = "" THEN CliResult(r.result.merge_type, 0)
                    ELSE CliResult(r.err, 1)]

\* tract merge SOURCE [--no-ff]: t.merge, then format_merge_result, or
\* "Already up to date." on NothingToMergeError, or format_error and exit 1.
MergeCommand(s, source, no_ff) ==
    LET r == Merge(s, source, no_ff)
    IN  [db     |-> r.db,
         result |-> r.result,
         out    |-> IF r.err = "" THEN CliResult(r.result.merge_type, 0)
                    ELSE IF r.err = "NothingToMergeError"
                    THEN CliResult("Already up to date.", 0)
                    ELSE CliResult(r.err, 1)]

\* The command as a process: it opens the tract, merges, prints and closes;
\* its MergeResult ends with the process.
CliMerge(source, no_ff) ==
    /\ LET c == MergeCommand(db, source, no_ff)
       IN  /\ db' = IF c.out.exit_code = 0 THEN c.db ELSE disk
           /\ disk' = IF c.out.exit_code = 0 THEN c.db ELSE disk
           /\ cache' = IF c.result # NoResult /\ c.result.merge_commit_hash # 0
                       THEN <<>> ELSE cache
           /\ last' = c.out
    /\ UNCHANGED <<compile_cache, merge_result, batch>>

\* What the reset command prints and its exit code.
ResetResult(output, exit_code) ==
    [op |-> "tract reset", err |-> "", output |-> output, exit_code |-> exit_code]

\* The mutant has no force guard.
ResetCommandNoGuard(s, target, mode, force) ==
    LET r == EngineReset(s, target, mode)
    IN  IF r.err = ""
        THEN [db |-> r.db, out |-> ResetResult(<<"HEAD is now at", target, mode>>, 0)]
        ELSE [db |-> r.db, out |-> ResetResult(r.err, 1)]

\* tract reset TARGET [--soft|--hard] [--force]: the force guard comes before
\* the tract is opened; then t.reset and "HEAD is now at", or the error.
ResetCommand(s, target, mode, force) ==
    LET r == EngineReset(s, target, mode)
    IN  IF mode = "hard" /\ ~force
        THEN [db |-> s, out |-> ResetResult("Hard reset requires --force flag.", 1)]
        ELSE IF r.err = ""
        THEN [db |-> r.db, out |-> ResetResult(<<"HEAD is now at", target, mode>>, 0)]
        ELSE [db |-> r.db, out |-> ResetResult(r.err, 1)]

\* The command as a process: it opens the tract, resets, prints and closes.
CliReset(target, mode, force) ==
    /\ LET c == ResetCommand(db, target, mode, force)
       IN  /\ db' = IF c.out.exit_code = 0 THEN c.db ELSE disk
           /\ disk' = IF c.out.exit_code = 0 THEN c.db ELSE disk
           /\ last' = c.out
    /\ UNCHANGED <<compile_cache, cache, merge_result, batch>>

(***************************************************************************)
(* The Tract session: every mutating call is one transaction, and the      *)
(* cache manager is told of every commit and annotation.                   *)
(***************************************************************************)
\* Tract.commit: create_commit, then extend or patch the parent's snapshot.
TractCommit(content_hash, operation, response_to) ==
    /\ LET r      == CreateCommit(db, content_hash, operation, response_to, FALSE)
           parent == Get(cache, db.head)
           new    == r.db.head
           patched == PatchForEdit(r.db, parent.snapshot, new, new)
       IN  /\ db' = IF r.err = "" THEN r.db ELSE disk
           /\ disk' = IF r.err = "" THEN r.db ELSE disk
           /\ cache' =
                 IF r.err # "" THEN cache
                 ELSE IF parent.snapshot = NoSnapshot THEN cache
                 ELSE IF operation = "APPEND"
                 THEN Put(parent.cache, new, ExtendForAppend(r.db, new, parent.snapshot))
                 ELSE IF patched = NoSnapshot THEN parent.cache
                 ELSE Put(parent.cache, new, patched)
           /\ last' = Result("commit", r.err)
    /\ UNCHANGED <<compile_cache, merge_result, batch>>

\* What Tract.compile returns.
TractCompileOut(s, c) ==
    IF s.head = 0 THEN EmptyContext
    ELSE IF Has(c, s.head) THEN ToCompiled(Get(c, s.head).snapshot)
    ELSE FullCompile(s, s.head)

\* Tract.compile: the cached snapshot, else a full compile that is cached.
TractCompile ==
    /\ cache' = IF db.head = 0 THEN cache
                ELSE IF Has(cache, db.head) THEN Get(cache, db.head).cache
                ELSE Put(cache, db.head, BuildSnapshot(db.head, FullCompile(db, db.head)))
    /\ last' = Result("compile", "")
    /\ UNCHANGED <<db, disk, compile_cache, merge_result, batch>>

\* Tract.annotate: the row, then the patch of HEAD's snapshot; no patch
\* invalidates the cache.
TractAnnotate(target_hash, priority) ==
    /\ LET r       == EngineAnnotate(db, target_hash, priority)
           current == Get(cache, db.head)
           patched == PatchForAnnotate(current.snapshot, target_hash, priority)
       IN  /\ db' = IF r.err = "" THEN r.db ELSE disk
           /\ disk' = IF r.err = "" THEN r.db ELSE disk
           /\ cache' =
                 IF r.err # "" THEN cache
                 ELSE IF current.snapshot = NoSnapshot THEN cache
                 ELSE IF patched = NoSnapshot THEN <<>>
                 ELSE Put(current.cache, db.head, patched)
           /\ last' = Result("annotate", r.err)
    /\ UNCHANGED <<compile_cache, merge_result, batch>>

Commits == DOMAIN db.commits

\* Room for one more commit or annotation row.
CanAdd(max) == Len(db.commits) + Len(db.annotations) < max

Times == 1..(Now(db) - 1)

\* The hashes a caller may name as the target of an EDIT: every commit and
\* one hash the store does not hold.
Targets == 1..(Len(db.commits) + 1)

(***************************************************************************)
(* Spec: a Repo session with its compile cache, closed and reopened.        *)
(***************************************************************************)
Next ==
    \/ CanAdd(MaxRows) /\ \E c \in ContentHashes : RepoCommit(c, "APPEND", 0)
    \/ CanAdd(MaxRows) /\ \E c \in ContentHashes, t \in Targets : RepoCommit(c, "EDIT", t)
    \/ \E f \in BOOLEAN : RepoCompile(0, 0, f)
    \/ \E t \in Times : RepoCompile(t, 0, FALSE)
    \/ \E u \in Commits : RepoCompile(0, u, FALSE)
    \/ CanAdd(MaxRows) /\ \E t \in Commits, p \in Priorities : RepoAnnotate(t, p)
    \/ Reopen

Spec == Init /\ [][Next]_vars

(***************************************************************************)
(* SpecCache: a Tract session with its snapshot cache.                     *)
(***************************************************************************)
NextCache ==
    \/ CanAdd(MaxCacheRows) /\ \E c \in ContentHashes : TractCommit(c, "APPEND", 0)
    \/ CanAdd(MaxCacheRows) /\ \E c \in ContentHashes, t \in Targets : TractCommit(c, "EDIT", t)
    \/ TractCompile
    \/ CanAdd(MaxCacheRows) /\ \E t \in Commits, p \in Priorities : TractAnnotate(t, p)

SpecCache == Init /\ [][NextCache]_vars

(***************************************************************************)
(* SpecRefs: commits, branches, HEAD moves, rebase and cherry-pick.        *)
(***************************************************************************)
Resolvers == {"none", "abort", "skip", "resolved", "resolved_no_text"}

\* What a caller commits in SpecRefs: the refs do not depend on the content.
RefContentHashes == {2}

\* A resolver is consulted only when there is a warning to resolve.
HasWarnings(target_branch) ==
    RebaseWarnings(db, CommitsToReplay(db, db.branches[target_branch]),
                   db.branches[target_branch]) # <<>>

NextRefs ==
    \/ CanAdd(MaxDagRows) /\ \E c \in RefContentHashes : TractCommit(c, "APPEND", 0)
    \/ CanAdd(MaxDagRows) /\ \E c \in RefContentHashes, t \in Targets : TractCommit(c, "EDIT", t)
    \/ \E b \in Branches, sw \in BOOLEAN : db.head # 0 /\ DoBranch(b, db.head, sw)
    \/ \E b \in Branches : DoSwitch(b)
    \/ \E c \in Commits, m \in ResetModes : DoReset(c, m)
    \/ \E b \in Branches, r \in Resolvers :
          /\ Len(db.commits) <= MaxDagRows
          /\ r = "none" \/ HasWarnings(b)
          /\ DoRebase(b, r)
    \/ \E c \in Commits, r \in Resolvers :
          /\ Len(db.commits) <= MaxDagRows
          /\ r = "none" \/ CherryPickIssue(db, c)
          /\ DoCherryPick(c, r)

SpecRefs == Init /\ [][NextRefs]_vars

(***************************************************************************)
(* SpecMerge: two branches, merges and the review of their conflicts.      *)
(***************************************************************************)
\* What a caller commits in SpecMerge: two contents make an edit conflict.
MergeContentHashes == {2, 3}

\* The texts a caller writes into resolutions.
ResolutionTexts == {"R", "A"}

\* The targets edit_resolution is called with: those of the conflicts.
ConflictedTargets ==
    IF merge_result = NoResult THEN {}
    ELSE {c.target_hash : c \in merge_result.conflicts}

NextMerge ==
    \/ CanAdd(MaxMergeRows) /\ \E c \in MergeContentHashes : TractCommit(c, "APPEND", 0)
    \/ CanAdd(MaxMergeRows) /\ \E c \in MergeContentHashes, t \in Commits :
          TractCommit(c, "EDIT", t)
    \/ \E b \in Branches, sw \in BOOLEAN : db.head # 0 /\ DoBranch(b, db.head, sw)
    \/ \E b \in Branches : DoSwitch(b)
    \/ \E b \in Branches, no_ff \in BOOLEAN :
          Len(db.commits) <= MaxMergeRows /\ DoMerge(b, no_ff)
    \/ \E t \in ConflictedTargets, x \in ResolutionTexts : DoEditResolution(t, x)
    \/ Len(db.commits) <= MaxMergeRows /\ DoCommitMerge
    \/ \E b \in Branches : Len(db.commits) <= MaxMergeRows /\ CliMerge(b, FALSE)

SpecMerge == Init /\ [][NextMerge]_vars

(***************************************************************************)
(* SpecRebase: diverged branches, merge commits and rebases.               *)
(***************************************************************************)
\* What a caller commits in SpecRebase: one content to append, another to
\* edit with.
AppendContentHashes == {2}
EditContentHashes == {3}

\* What the resolver of a rebase answers: abort, or anything else.
RebaseResolvers == {"none", "abort", "skip"}

NextRebase ==
    \/ CanAdd(MaxRebaseRows) /\ \E c \in AppendContentHashes : TractCommit(c, "APPEND", 0)
    \/ CanAdd(MaxRebaseRows) /\ \E c \in EditContentHashes, t \in Commits :
          TractCommit(c, "EDIT", t)
    \/ \E b \in Branches, sw \in BOOLEAN : db.head # 0 /\ DoBranch(b, db.head, sw)
    \/ \E b \in Branches : DoSwitch(b)
    \/ db.head # 0 /\ DoCheckoutCommit(db.head)
    \/ \E b \in Branches, no_ff \in BOOLEAN :
          Len(db.commits) < MaxRebaseRows /\ CliMerge(b, no_ff)
    \/ \E b \in Branches, r \in RebaseResolvers :
          /\ Len(db.commits) <= MaxRebaseRows
          /\ r = "none" \/ HasWarnings(b)
          /\ DoRebase(b, r)

SpecRebase == Init /\ [][NextRebase]_vars

(***************************************************************************)
(* SpecStore: every operation that writes commit, blob or annotation rows.  *)
(***************************************************************************)
\* What a caller commits in SpecStore: the same payload every time.
StoreContentHashes == {2}

NextStore ==
    \/ CanAdd(MaxStoreRows) /\ \E c \in StoreContentHashes : TractCommit(c, "APPEND", 0)
    \/ CanAdd(MaxStoreRows) /\ \E c \in StoreContentHashes, t \in Commits :
          TractCommit(c, "EDIT", t)
    \/ CanAdd(MaxStoreRows) /\ \E t \in Commits, p \in Priorities : TractAnnotate(t, p)
    \/ \E b \in Branches, sw \in BOOLEAN : db.head # 0 /\ DoBranch(b, db.head, sw)
    \/ \E b \in Branches : DoSwitch(b)
    \/ \E c \in Commits, m \in ResetModes : DoReset(c, m)
    \/ CanAdd(MaxStoreRows) /\ \E b \in Branches, no_ff \in BOOLEAN : CliMerge(b, no_ff)
    \/ \E b \in Branches, r \in RebaseResolvers :
          /\ Len(db.commits) + Len(db.annotations) <= MaxStoreRows
          /\ r = "none" \/ HasWarnings(b)
          /\ DoRebase(b, r)
    \/ CanAdd(MaxStoreRows) /\ \E c \in Commits, r \in Resolvers :
          /\ r = "none" \/ CherryPickIssue(db, c)
          /\ DoCherryPick(c, r)

SpecStore == Init /\ [][NextStore]_vars

(***************************************************************************)
(* SpecHead: branches and HEAD moved by switch, checkout, reset and        *)
(* delete_branch, from the library and from the command line.              *)
(***************************************************************************)
\* What a caller commits in SpecHead: the refs do not depend on the content.
HeadContentHashes == {2}

\* The options of tract reset: --soft, --hard, --hard --force.
ResetOptions == {<<"soft", FALSE>>, <<"hard", FALSE>>, <<"hard", TRUE>>}

NextHead ==
    \/ CanAdd(MaxHeadRows) /\ \E c \in HeadContentHashes : TractCommit(c, "APPEND", 0)
    \/ CanAdd(MaxHeadRows) /\ \E c \in HeadContentHashes :
          db.head # 0 /\ TractCommit(c, "EDIT", db.head)
    \/ \E b \in Branches, sw \in BOOLEAN : db.head # 0 /\ DoBranch(b, db.head, sw)
    \/ \E b \in Branches : DoSwitch(b)
    \/ \E b \in Branches : DoCheckoutBranch(b)
    \/ \E c \in Commits : DoCheckoutCommit(c)
    \/ DoCheckoutPrevious
    \/ \E c \in Commits, m \in ResetModes : DoReset(c, m)
    \/ \E b \in Branches, force \in BOOLEAN : DoDeleteBranch(b, force)
    \/ \E c \in Commits, o \in ResetOptions : CliReset(c, o[1], o[2])

SpecHead == Init /\ [][NextHead]_vars

(***************************************************************************)
(* SpecBatch: a Repo session that commits inside and outside batch blocks.  *)
(***************************************************************************)
\* Batch blocks open at a time.
MaxBatchDepth == 2

\* Commit rows of the store under SpecBatch.
MaxBatchRows == 3

\* What a caller commits in SpecBatch.
BatchContentHashes == {1, 2}

\* Repo.batch, entered: the session's commit is stashed and replaced by the
\* no-op; entry_head records the HEAD the block started from.
BatchEnter ==
    /\ Len(batch) < MaxBatchDepth
    /\ batch' = Append(batch, [real_commit |-> IF batch = <<>> THEN "commit" ELSE "noop",
                               entry_head  |-> db.head])
    /\ last' = Result("batch", "")
    /\ UNCHANGED <<db, disk, compile_cache, cache, merge_result>>

\* The innermost block raises: rollback, and the stashed commit is put back.
BatchRaise ==
    /\ batch # <<>>
    /\ db' = disk
    /\ batch' = SubSeq(batch, 1, Len(batch) - 1)
    /\ last' = Result("batch exit", "Exception")
    /\ UNCHANGED <<disk, compile_cache, cache, merge_result>>

\* The innermost block ends: the stashed commit is called and put back.
BatchExit ==
    /\ batch # <<>>
    /\ disk' = IF batch[Len(batch)].real_commit = "commit" THEN db ELSE disk
    /\ batch' = SubSeq(batch, 1, Len(batch) - 1)
    /\ last' = Result("batch exit", "")
    /\ UNCHANGED <<db, compile_cache, cache, merge_result>>

NextBatch ==
    \/ /\ Len(db.commits) < MaxBatchRows
       /\ \E c \in BatchContentHashes : RepoCommit(c, "APPEND", 0)
    \/ BatchEnter
    \/ BatchRaise
    \/ BatchExit

SpecBatch == Init /\ [][NextBatch]_vars

(***************************************************************************)
(* SpecLru: a caller of CacheManager.get and CacheManager.put.  `last`      *)
(* carries the caller's log: the keys in the order of their last use.       *)
(***************************************************************************)
Keys == 1..MaxKeys

\* What a caller puts under a key: one of two snapshots of that HEAD.
SnapshotsOf(head_hash) ==
    {[head_hash          |-> head_hash,
      messages           |-> <<>>,
      commit_count       |-> n,
      token_count        |-> 0,
      generation_configs |-> <<>>,
      commit_hashes      |-> <<>>] : n \in {0, 1}}

\* The log so far; empty until the first call.
Used == IF "used" \in DOMAIN last THEN last.used ELSE <<>>

\* The log after a use of the key.
Touch(used, head_hash) ==
    LET Other(k) == k # head_hash
    IN  SelectSeq(used, Other) \o <<head_hash>>

CacheGet(head_hash) ==
    /\ LET r == Get(cache, head_hash)
       IN  /\ cache' = r.cache
           /\ last' = [op |-> "get", err |-> "", key |-> head_hash,
                       returned |-> r.snapshot,
                       used |-> IF Has(cache, head_hash) THEN Touch(Used, head_hash)
                                ELSE Used]
    /\ UNCHANGED <<db, disk, compile_cache, merge_result, batch>>

CachePut(head_hash, snapshot) ==
    /\ cache' = Put(cache, head_hash, snapshot)
    /\ last' = [op |-> "put", err |-> "", key |-> head_hash, returned |-> snapshot,
                used |-> Touch(Used, head_hash)]
    /\ UNCHANGED <<db, disk, compile_cache, merge_result, batch>>

NextLru ==
    \/ \E k \in Keys : CacheGet(k)
    \/ \E k \in Keys : \E snapshot \in SnapshotsOf(k) : CachePut(k, snapshot)

SpecLru == Init /\ [][NextLru]_vars

(***************************************************************************)
(* Claims about the compiler and the Repo session.                         *)
(***************************************************************************)
SameOutput(a, b) ==
    /\ a.messages = b.messages
    /\ a.commit_count = b.commit_count
    /\ a.token_count = b.token_count

\* C1: an unfiltered compile() at the current HEAD returns the messages,
\* commit_count and token_count of a full compile of HEAD from the store,
\* whatever the compile cache holds or held.
C1_CompileDependsOnStoreOnly ==
    SameOutput(RepoCompileOut(db, compile_cache, 0, 0, FALSE),
               FullCompile(db, db.head))

\* HEAD's snapshot in the cache, as compile would return it.
CachedHead == ToCompiled(Get(cache, db.head).snapshot)

Committed(operation) ==
    /\ last.op = "commit"
    /\ last.err = ""
    /\ db.commits[db.head].operation = operation

\* C2: the snapshot extend_for_append stores under the HEAD of a new APPEND
\* commit has the messages and the token count of a full compile at that HEAD.
C2_ExtendEqualsFullCompile ==
    (Committed("APPEND") /\ Has(cache, db.head))
      => LET full == FullCompile(db, db.head)
         IN  /\ CachedHead.messages = full.messages
             /\ CachedHead.token_count = full.token_count

\* C3: the snapshot patch_for_edit returns for a new EDIT commit has the
\* messages, the commit_count and the token count of a full compile at the
\* new HEAD.
C3_PatchEqualsFullCompile ==
    (Committed("EDIT") /\ Has(cache, db.head))
      => SameOutput(CachedHead, FullCompile(db, db.head))

\* C4: HEAD is attached, and then equal to the commit of the current branch
\* ref, or detached; after every operation, failed ones included.
C4_HeadCoherence ==
    db.current_branch # Detached => db.head = db.branches[db.current_branch]

\* The commits from h to its root along parent_hash.
RECURSIVE PrimaryChain(_, _)
PrimaryChain(s, h) ==
    IF h = 0 THEN {} ELSE {h} \cup PrimaryChain(s, s.commits[h].parent_hash)

\* C5: every EDIT commit of the store names in response_to an ancestor of
\* itself along its primary parent chain, the commits written by rebase
\* replay and by cherry-pick included.
C5_EditLocality ==
    \A c \in Commits :
        db.commits[c].operation = "EDIT"
          => db.commits[c].response_to \in PrimaryChain(db, db.commits[c].parent_hash)

\* C5 witness: a rebase has just replayed an EDIT onto the target branch,
\* and an EDIT of a commit outside HEAD's chain has been refused before.
C5_Witness ==
    /\ last.op = "rebase"
    /\ last.err = ""
    /\ db.commits[db.head].operation = "EDIT"
    /\ \E c \in Commits : c < db.head /\ c \notin PrimaryChain(db, db.head)
                           /\ db.commits[c].operation = "EDIT"

\* C6: a public mutating call that raises leaves the store as it was before
\* the call: no commit, blob, parent edge or annotation added, no ref changed.
C6_FailedCallLeavesStore ==
    [][last'.err # "" => (db' = db /\ disk' = disk)]_vars

\* The EDIT commits of a chain that target t, and the one created last.
EditsOf(s, commits, t) ==
    {c \in Range(commits) :
        s.commits[c].operation = "EDIT" /\ s.commits[c].response_to = t}

LatestEditOf(s, commits, t) ==
    CHOOSE e \in EditsOf(s, commits, t) :
        \A x \in EditsOf(s, commits, t) :
            s.commits[x].created_at <= s.commits[e].created_at

\* The output in which every edited commit carries its latest edit.
LatestEditMessages(s, head_hash) ==
    LET commits   == Reverse(GetAncestors(s, head_hash))
        priority  == BuildPriorityMap(s, commits, 0)
        Shown(c)  == s.commits[c].operation # "EDIT" /\ priority[c] # "SKIP"
        visible   == SelectSeq(commits, Shown)
    IN  AggregateMessages(
          [i \in DOMAIN visible |->
              BuildMessageForCommit(s,
                  IF EditsOf(s, commits, visible[i]) # {}
                  THEN LatestEditOf(s, commits, visible[i])
                  ELSE visible[i])])

\* C7: compile shows every edited commit with the content of the EDIT in
\* HEAD's ancestry that targets it and has the latest created_at.
C7_LatestEditWins ==
    FullCompile(db, db.head).messages = LatestEditMessages(db, db.head)

\* C7 witness: HEAD's chain holds two EDITs of one commit with different
\* content, and compile has run.
C7_Witness ==
    /\ last.op = "compile"
    /\ \E t \in Commits :
          LET edits == EditsOf(db, GetAncestors(db, db.head), t)
          IN  \E e1 \in edits, e2 \in edits :
                 db.commits[e1].content_hash # db.commits[e2].content_hash

\* The priority a commit had at time t: its latest annotation not later
\* than t, else the default of its content type.
PriorityAt(s, c, t) ==
    LET rows == {i \in DOMAIN s.annotations :
                    /\ s.annotations[i].target_hash = c
                    /\ s.annotations[i].created_at <= t}
    IN  IF rows = {} THEN DefaultTypePriority(s.commits[c].content_type)
        ELSE s.annotations[CHOOSE i \in rows : \A j \in rows : j <= i].priority

\* C8: compile(as_of = t) gives every visible commit the priority of its
\* latest annotation that is not later than t.
C8_PriorityAsOf ==
    \A t \in Times :
        LET commits == WalkChain(db, db.head, t, 0)
            priority_map == BuildPriorityMap(db, commits, t)
        IN  \A c \in Range(commits) : priority_map[c] = PriorityAt(db, c, t)

\* The commits compile turns into messages.
EffectiveCommits(s, head_hash) ==
    LET commits == WalkChain(s, head_hash, 0, 0)
    IN  BuildEffectiveCommits(s, commits, BuildEditMap(s, commits, 0),
                              BuildPriorityMap(s, commits, 0))

NewestAnnotation(s) == s.annotations[Len(s.annotations)]

AnnotatedNow == /\ last'.op = "annotate"
                /\ last'.err = ""
                /\ Len(db'.annotations) = Len(db.annotations) + 1

\* C9: annotating a commit of the compiled output with SKIP makes compile
\* return the previous messages with that commit's message removed and every
\* other message as it was.
C9_SkipRemovesOneMessage ==
    [][(/\ AnnotatedNow
        /\ NewestAnnotation(db').priority = "SKIP"
        /\ NewestAnnotation(db').target_hash \in Range(EffectiveCommits(db, db.head)))
       => LET before == FullCompile(db, db.head).messages
              after  == RepoCompileOut(db', compile_cache', 0, 0, FALSE).messages
          IN  \E i \in DOMAIN before : after = RemoveAt(before, i)]_vars

WithoutAnnotationsOn(s, t) ==
    LET Other(a) == a.target_hash # t
    IN  [s EXCEPT !.annotations = SelectSeq(@, Other)]

\* annotate(t, NORMAL) has just returned, and the rows on t are exactly a
\* SKIP followed by that NORMAL.
SkipThenNormal(t) ==
    /\ last.op = "annotate"
    /\ last.err = ""
    /\ Len(db.annotations) >= 2
    /\ LET n == Len(db.annotations)
       IN  /\ db.annotations[n].target_hash = t
           /\ db.annotations[n].priority = "NORMAL"
           /\ db.annotations[n - 1].target_hash = t
           /\ db.annotations[n - 1].priority = "SKIP"
           /\ \A i \in 1..(n - 2) : db.annotations[i].target_hash # t

\* C10: after annotate(t, SKIP) and annotate(t, NORMAL), compile at the HEAD
\* returns what it returns on the store without any annotation of t.
C10_SkipRoundTrip ==
    \A t \in Commits :
        SkipThenNormal(t)
          => SameOutput(RepoCompileOut(db, compile_cache, 0, 0, FALSE),
                        FullCompile(WithoutAnnotationsOn(db, t), db.head))

\* C10 witness: the round trip has happened on a commit that HEAD shows.
C10_Witness ==
    \E t \in Commits :
        /\ SkipThenNormal(t)
        /\ t \in Range(EffectiveCommits(db, db.head))

\* C11: at one HEAD, in every order and repetition of compile calls,
\* compile(include_edit_annotations = TRUE) returns every edited message
\* with the marker and compile() without the flag returns it without.
C11_EditMarkerFollowsFlag ==
    \A f \in BOOLEAN :
        RepoCompileOut(db, compile_cache, 0, 0, f).messages
          = Compile(db, db.head, 0, 0, f).messages

(***************************************************************************)
(* Claims about merge.                                                     *)
(***************************************************************************)
\* The commits on the primary chain of tip that other does not reach.
OnlyOn(s, tip, other) == Range(GetAncestors(s, tip)) \ GetAllAncestors(s, other)

Diverged(s, source_branch) ==
    /\ s.head \notin GetAllAncestors(s, s.branches[source_branch])
    /\ s.branches[source_branch] \notin GetAllAncestors(s, s.head)

\* The targets an EDIT of each side gives different content.
EditedApart(s, source_branch) ==
    LET source_tip == s.branches[source_branch]
    IN  {t \in DOMAIN s.commits :
            \E a \in EditsOf(s, GetAncestors(s, s.head), t) \cap OnlyOn(s, s.head, source_tip),
               b \in EditsOf(s, GetAncestors(s, source_tip), t) \cap OnlyOn(s, source_tip, s.head) :
                s.commits[a].content_hash # s.commits[b].content_hash}

\* C12: for diverged branches merge reports a both_edit conflict for exactly
\* the targets that an EDIT in base..target and an EDIT in base..source give
\* different content; with a conflict the merge is returned uncommitted and
\* nothing is written, and without one the merge is clean and committed.
C12_BothEditConflicts ==
    \A b \in Branches, no_ff \in BOOLEAN :
        (db.current_branch # Detached /\ db.branches[b] # 0 /\ Diverged(db, b))
          => LET r == Merge(db, b, no_ff)
                 both_edit == {c.target_hash : c \in {x \in r.result.conflicts :
                                                        x.conflict_type = "both_edit"}}
             IN  /\ r.err = ""
                 /\ both_edit = EditedApart(db, b)
                 /\ r.result.conflicts # {} => (~r.result.committed /\ r.db = db)
                 /\ r.result.conflicts = {}
                      => (r.result.merge_type = "clean" /\ r.result.committed)

\* C12 witness: merge has returned a both_edit conflict.
C12_Witness ==
    /\ last.op = "merge"
    /\ last.err = ""
    /\ merge_result # NoResult
    /\ merge_result.merge_type = "conflict"
    /\ \E c \in merge_result.conflicts : c.conflict_type = "both_edit"

\* C14: when the target tip (HEAD) is a proper ancestor of the source tip,
\* merge without no_ff moves the current branch and HEAD to the source tip
\* and creates no commit: the commits and parent edges are as before.
C14_FastForward ==
    \A b \in Branches :
        (/\ db.current_branch # Detached
         /\ db.branches[b] # 0
         /\ db.head # db.branches[b]
         /\ db.head \in GetAllAncestors(db, db.branches[b]))
          => LET r == Merge(db, b, FALSE)
             IN  /\ r.err = ""
                 /\ r.result.merge_type = "fast_forward"
                 /\ r.db.branches[db.current_branch] = db.branches[b]
                 /\ r.db.head = db.branches[b]
                 /\ r.db.commits = db.commits
                 /\ r.db.commit_parents = db.commit_parents

\* C14 witness: a merge has just fast-forwarded the current branch to the
\* tip of another branch.
C14_Witness ==
    /\ last.op = "merge"
    /\ last.err = ""
    /\ merge_result # NoResult
    /\ merge_result.merge_type = "fast_forward"
    /\ merge_result.target_tip_hash # merge_result.source_tip_hash
    /\ db.head = merge_result.source_tip_hash
    /\ db.branches[db.current_branch] = db.head

\* C15: when the source tip is the target tip (HEAD) or an ancestor of it,
\* merge changes nothing - no commit, no parent edge, no ref - and the merge
\* command prints "Already up to date." and exits with code 0.
C15_AlreadyUpToDate ==
    \A b \in Branches, no_ff \in BOOLEAN :
        (/\ db.current_branch # Detached
         /\ db.branches[b] # 0
         /\ db.branches[b] \in GetAllAncestors(db, db.head))
          => LET r == Merge(db, b, no_ff)
                 c == MergeCommand(db, b, no_ff)
             IN  /\ r.db = db
                 /\ r.result = NoResult
                 /\ c.db = db
                 /\ c.out.output = "Already up to date."
                 /\ c.out.exit_code = 0

\* C15 witness: the merge command has just reported a source branch that
\* lies behind HEAD as up to date.
C15_Witness ==
    /\ last.op = "tract merge"
    /\ last.output = "Already up to date."
    /\ last.exit_code = 0
    /\ \E b \in Branches : /\ db.branches[b] # 0
                           /\ db.branches[b] # db.head
                           /\ db.branches[b] \in GetAllAncestors(db, db.head)

\* C16: a merge that returns conflicts, and every edit_resolution on the
\* MergeResult a caller holds, leaves the store as it was: no commit, parent
\* edge, annotation or ref is changed before commit_merge.
C16_PendingMergeWritesNothing ==
    [][(\/ /\ last'.op = "merge"
           /\ last'.err = ""
           /\ merge_result'.merge_type = "conflict"
        \/ last'.op = "edit_resolution")
       => (db' = db /\ disk' = disk)]_vars

\* C16 witness: a conflicted merge is under review, the caller has just
\* edited a resolution, and no merge commit exists.
C16_Witness ==
    /\ last.op = "edit_resolution"
    /\ merge_result.merge_type = "conflict"
    /\ ~merge_result.committed
    /\ DOMAIN merge_result.resolutions # {}
    /\ db.commit_parents = {}

(***************************************************************************)
(* Claims about rebase.                                                    *)
(***************************************************************************)
\* base..current: the commits of HEAD's primary chain that the target tip
\* does not reach, oldest first.
RebaseRange(s, target_branch) ==
    LET NotOnTarget(c) == c \notin GetAllAncestors(s, s.branches[target_branch])
    IN  SelectSeq(Reverse(GetAncestors(s, s.head)), NotOnTarget)

\* There is something to replay: HEAD is attached, and the target tip is a
\* commit that HEAD does not reach.
HasReplay(s, target_branch) ==
    /\ s.current_branch # Detached
    /\ s.head # 0
    /\ s.branches[target_branch] # 0
    /\ s.branches[target_branch] \notin GetAllAncestors(s, s.head)
    /\ RebaseRange(s, target_branch) # <<>>

\* C18: a successful rebase that replays c1..cn (base..current, oldest
\* first) adds exactly n commits c1'..cn' with the content and the operation
\* of c1..cn, c1' on the target tip and ci' on c(i-1)'; the current branch
\* ref and HEAD are cn' with HEAD attached to that branch, and the target
\* branch ref and the old commits are as before.
C18_RebaseReplay ==
    \A b \in Branches, resolver \in RebaseResolvers :
        LET r     == Rebase(db, b, resolver)
            range == RebaseRange(db, b)
            old   == Len(db.commits)
            n     == Len(range)
        IN  (HasReplay(db, b) /\ r.err = "")
              => /\ Len(r.db.commits) = old + n
                 /\ SubSeq(r.db.commits, 1, old) = db.commits
                 /\ \A i \in 1..n :
                       /\ r.db.commits[old + i].content_hash
                            = db.commits[range[i]].content_hash
                       /\ r.db.commits[old + i].operation
                            = db.commits[range[i]].operation
                       /\ r.db.commits[old + i].parent_hash
                            = IF i = 1 THEN db.branches[b] ELSE old + i - 1
                 /\ r.db.current_branch = db.current_branch
                 /\ r.db.branches[db.current_branch] = old + n
                 /\ r.db.head = old + n
                 /\ b # db.current_branch => r.db.branches[b] = db.branches[b]

\* C18 witness: a rebase has just replayed two commits, the second on the
\* first and the first on the tip of the other branch.
C18_Witness ==
    /\ last.op = "rebase"
    /\ last.err = ""
    /\ Len(db.commits) >= 4
    /\ db.head = Len(db.commits)
    /\ db.current_branch # Detached
    /\ db.branches[db.current_branch] = db.head
    /\ db.commits[db.head].parent_hash = db.head - 1
    /\ \E b \in Branches \ {db.current_branch} :
          db.commits[db.head - 1].parent_hash = db.branches[b]
    /\ \E c1 \in Commits, c2 \in Commits :
          /\ c2 < db.head - 1
          /\ db.commits[c2].parent_hash = c1
          /\ {c1, c2} \cap PrimaryChain(db, db.head) = {}
          /\ db.commits[c1].content_hash = db.commits[db.head - 1].content_hash
          /\ db.commits[c2].content_hash = db.commits[db.head].content_hash

MergeInRange(s, target_branch) ==
    \E i \in DOMAIN RebaseRange(s, target_branch) :
        \E e \in s.commit_parents : e[1] = RebaseRange(s, target_branch)[i]

\* An EDIT of base..current targets a commit outside the target branch's
\* ancestry.
EditLeavesTarget(s, target_branch) ==
    \E i \in DOMAIN RebaseRange(s, target_branch) :
        LET c == s.commits[RebaseRange(s, target_branch)[i]]
        IN  /\ c.operation = "EDIT"
            /\ c.response_to # 0
            /\ c.response_to \notin GetAllAncestors(s, s.branches[target_branch])

\* C20: rebase refuses with every ref and every commit as they were, HEAD
\* where it was (attached to the current branch at its tip unless it was
\* detached at the call): RebaseError on a detached HEAD and on a second
\* parent in base..current, SemanticSafetyError on an EDIT of the range whose
\* target is outside the target branch's ancestry when no resolver is given,
\* RebaseError when the resolver answers abort.
C20_RebaseRefusals ==
    \A b \in Branches, resolver \in RebaseResolvers :
        LET r == Rebase(db, b, resolver)
        IN  /\ (db.current_branch = Detached)
                 => (r.err = "RebaseError" /\ r.db = db)
            /\ (HasReplay(db, b) /\ MergeInRange(db, b))
                 => (r.err = "RebaseError" /\ r.db = db)
            /\ (HasReplay(db, b) /\ ~MergeInRange(db, b) /\ EditLeavesTarget(db, b))
                 => /\ resolver = "none" => r.err = "SemanticSafetyError"
                    /\ resolver = "abort" => r.err = "RebaseError"
                    /\ resolver \in {"none", "abort"}
                         => /\ r.db = db
                            /\ r.db.current_branch # Detached
                            /\ r.db.head = db.head

\* C20 witness: a rebase has just been refused for a merge commit in its
\* range.
C20_Witness ==
    /\ last.op = "rebase"
    /\ last.err = "RebaseError"
    /\ \E b \in Branches : HasReplay(db, b) /\ MergeInRange(db, b)

\* C21: a rebase onto a branch whose tip is the current tip or one of its
\* ancestors returns with the store, the branch refs and HEAD as they were;
\* so does a second rebase onto the same branch right after a successful
\* one.
C21_RebaseNoOp ==
    \A b \in Branches, resolver \in RebaseResolvers :
        LET r == Rebase(db, b, resolver)
        IN  /\ ( /\ db.current_branch # Detached
                 /\ db.head # 0
                 /\ db.branches[b] # 0
                 /\ db.branches[b] \in GetAllAncestors(db, db.head) )
                 => (r.err = "" /\ r.db = db)
            /\ r.err = ""
                 => /\ Rebase(r.db, b, resolver).err = ""
                    /\ Rebase(r.db, b, resolver).db = r.db

\* C21 witness: a rebase has just succeeded and left HEAD on a copy that sits
\* above the tip of another branch.
C21_Witness ==
    /\ last.op = "rebase"
    /\ last.err = ""
    /\ db.current_branch # Detached
    /\ \E b \in Branches :
          /\ b # db.current_branch
          /\ db.branches[b] # 0
          /\ db.branches[b] # db.head
          /\ db.branches[b] \in GetAllAncestors(db, db.head)
          /\ \E c \in 1..Len(db.commits) :
                /\ c < db.head
                /\ c \notin GetAllAncestors(db, db.head)
                /\ db.commits[c].content_hash = db.commits[db.head].content_hash

(***************************************************************************)
(* Claims about cherry-pick.                                               *)
(***************************************************************************)
\* The commit is an EDIT whose target HEAD does not reach.
EditTargetMissing(s, commit_hash) ==
    /\ CommitGet(s, commit_hash)
    /\ s.commits[commit_hash].operation = "EDIT"
    /\ s.commits[commit_hash].response_to \notin GetAllAncestors(s, s.head)

\* C22: cherry-picking an EDIT whose target HEAD does not reach raises
\* CherryPickError and creates nothing with no resolver or one that answers
\* abort, creates nothing on skip, and creates a commit only on resolved: one
\* commit, an APPEND on HEAD; no answer makes it an EDIT.
C22_CherryPickMissingTarget ==
    \A c \in Commits, resolver \in Resolvers :
        LET r   == CherryPick(db, c, resolver)
            old == Len(db.commits)
        IN  EditTargetMissing(db, c)
              => /\ resolver \in {"none", "abort"}
                     => (r.err = "CherryPickError" /\ r.db = db)
                 /\ resolver = "skip" => (r.err = "" /\ r.db = db)
                 /\ SubSeq(r.db.commits, 1, old) = db.commits
                 /\ Len(r.db.commits) > old
                     => /\ resolver = "resolved"
                        /\ r.err = ""
                        /\ Len(r.db.commits) = old + 1
                        /\ r.db.commits[old + 1].operation = "APPEND"
                        /\ r.db.commits[old + 1].response_to = 0
                        /\ r.db.commits[old + 1].parent_hash = db.head
                        /\ r.db.head = old + 1
                 /\ (resolver = "resolved" /\ db.current_branch # Detached)
                     => Len(r.db.commits) = old + 1

\* C22 witness: a cherry-pick of an EDIT whose target HEAD did not reach has
\* just put the resolver's content on HEAD as an APPEND.
C22_Witness ==
    /\ last.op = "cherry_pick"
    /\ last.err = ""
    /\ db.head = Len(db.commits)
    /\ db.commits[db.head].operation = "APPEND"
    /\ db.commits[db.head].content_hash = ResolvedContent
    /\ \E c \in Commits : EditTargetMissing(db, c)

(***************************************************************************)
(* Claims about the store.                                                 *)
(***************************************************************************)
\* Every row of seq is a row of seq2 at the same position.
IsPrefix(seq, seq2) ==
    /\ Len(seq) <= Len(seq2)
    /\ \A i \in DOMAIN seq : seq2[i] = seq[i]

\* Every commit, blob, annotation and parent edge of s is in s2 as it was.
RowsKept(s, s2) ==
    /\ IsPrefix(s.commits, s2.commits)
    /\ IsPrefix(s.annotations, s2.annotations)
    /\ s.blobs \sqsubseteq s2.blobs
    /\ s.commit_parents \subseteq s2.commit_parents

\* C23: no operation updates or deletes a commit, blob or annotation row:
\* every step leaves each row the session and the database held where and
\* as it was, the originals of a rebase included.
C23_AppendOnly ==
    [][RowsKept(db, db') /\ RowsKept(disk, disk')]_vars

\* C23 witness: a rebase has just replayed a commit; the original and its
\* copy are both in the store.
C23_Witness ==
    /\ last.op = "rebase"
    /\ last.err = ""
    /\ db.head = Len(db.commits)
    /\ \E c \in Commits :
          /\ c \notin GetAllAncestors(db, db.head)
          /\ db.commits[c].created_at < db.commits[db.head].created_at
          /\ db.commits[c].parent_hash # db.commits[db.head].parent_hash
          /\ db.commits[c].content_hash = db.commits[db.head].content_hash

\* C24: every commit's parent_hash, and every second parent in the edge
\* table, names a commit of the store with an earlier created_at; the
\* ancestor walk from any commit ends at a root after at most one visit per
\* commit, and so does the walk over both parents.
C24_Acyclic ==
    /\ \A c \in Commits :
          \/ db.commits[c].parent_hash = 0
          \/ /\ CommitGet(db, db.commits[c].parent_hash)
             /\ db.commits[db.commits[c].parent_hash].created_at < db.commits[c].created_at
    /\ \A e \in db.commit_parents :
          /\ CommitGet(db, e[1])
          /\ CommitGet(db, e[2])
          /\ db.commits[e[2]].created_at < db.commits[e[1]].created_at
    /\ \A c \in Commits :
          LET walk == GetAncestors(db, c)
          IN  /\ Len(walk) <= Len(db.commits)
              /\ db.commits[walk[Len(walk)]].parent_hash = 0
              /\ \A i, j \in DOMAIN walk : i # j => walk[i] # walk[j]
              /\ Range(walk) \subseteq GetAllAncestors(db, c)

\* C24 witness: the store holds a merge commit with two different parents.
C24_Witness ==
    \E e \in db.commit_parents :
        /\ db.commits[e[1]].parent_hash # 0
        /\ db.commits[e[1]].parent_hash # e[2]

\* C25: the store holds one blob row per content_hash: a commit of a payload
\* the store already holds adds a commit and no blob row, a commit of a new
\* payload adds one blob row, and save_if_absent on a hash that is present
\* changes nothing.
C25_BlobDedup ==
    /\ \A h \in BagToSet(db.blobs) :
          /\ CopiesIn(h, db.blobs) = 1
          /\ SaveIfAbsent(db, h) = db
    /\ \A c \in Commits : BlobGet(db, db.commits[c].content_hash)
    /\ \A h \in ContentHashes :
          LET r == CreateCommit(db, h, "APPEND", 0, TRUE)
          IN  /\ r.err = ""
              /\ Len(r.db.commits) = Len(db.commits) + 1
              /\ BlobGet(db, h) => r.db.blobs = db.blobs
              /\ ~BlobGet(db, h) => BagCardinality(r.db.blobs) = BagCardinality(db.blobs) + 1
              /\ CopiesIn(h, r.db.blobs) = 1

\* C25 witness: the last call committed a payload that an earlier commit
\* carries too.
C25_Witness ==
    /\ last.op = "commit"
    /\ last.err = ""
    /\ db.head = Len(db.commits)
    /\ \E c \in Commits :
          /\ c # db.head
          /\ db.commits[c].content_hash = db.commits[db.head].content_hash
    /\ BagCardinality(db.blobs) = 1

(***************************************************************************)
(* Claims about branches and HEAD.                                         *)
(***************************************************************************)
\* The rows of the store and the branch refs are the same in s and s2.
SameRowsAndBranches(s, s2) ==
    /\ s2.commits = s.commits
    /\ s2.blobs = s.blobs
    /\ s2.annotations = s.annotations
    /\ s2.commit_parents = s.commit_parents
    /\ s2.branches = s.branches

\* C26: checkout of a branch leaves HEAD attached to it at its tip, checkout
\* of a commit leaves HEAD detached at that commit, neither moves a branch
\* ref, and a checkout("-") right after either puts HEAD back on the commit
\* it was at before.
C26_Checkout ==
    /\ \A b \in Branches :
          LET r    == EngineCheckoutBranch(db, b)
              back == EngineCheckoutPrevious(r.db)
          IN  db.branches[b] # 0
                => /\ r.err = ""
                   /\ r.db.current_branch = b
                   /\ r.db.head = db.branches[b]
                   /\ SameRowsAndBranches(db, r.db)
                   /\ back.err = ""
                   /\ back.db.head = db.head
                   /\ SameRowsAndBranches(db, back.db)
    /\ \A c \in Commits :
          LET r    == EngineCheckoutCommit(db, c)
              back == EngineCheckoutPrevious(r.db)
          IN  /\ r.err = ""
              /\ r.db.current_branch = Detached
              /\ r.db.head = c
              /\ SameRowsAndBranches(db, r.db)
              /\ back.err = ""
              /\ back.db.head = db.head
              /\ SameRowsAndBranches(db, back.db)

\* C26 witness: a checkout("-") has just brought HEAD back from another
\* commit.
C26_Witness ==
    /\ last.op = "checkout -"
    /\ last.err = ""
    /\ db.prev_head # 0
    /\ db.prev_head # db.head
    /\ \E b \in Branches : db.branches[b] # 0 /\ db.branches[b] # db.head

\* C27: reset(target, mode) puts the current branch ref and HEAD on target,
\* leaves HEAD attached as it was, every other ref and every row as they
\* were, and gives the same store for mode soft and mode hard.
C27_Reset ==
    \A c \in Commits :
        LET soft == EngineReset(db, c, "soft")
            hard == EngineReset(db, c, "hard")
        IN  /\ soft.err = ""
            /\ hard = soft
            /\ soft.db.head = c
            /\ soft.db.current_branch = db.current_branch
            /\ \A b \in Branches :
                  soft.db.branches[b] = IF b = db.current_branch THEN c ELSE db.branches[b]
            /\ soft.db.commits = db.commits
            /\ soft.db.blobs = db.blobs
            /\ soft.db.annotations = db.annotations
            /\ soft.db.commit_parents = db.commit_parents
            /\ ResetCommand(db, c, "soft", FALSE).db = ResetCommand(db, c, "hard", TRUE).db

\* C27 witness: a reset has just moved the current branch back to an earlier
\* commit while another branch stays on a later one.
C27_Witness ==
    /\ last.op = "reset"
    /\ last.err = ""
    /\ db.current_branch # Detached
    /\ db.branches[db.current_branch] = db.head
    /\ db.head < Len(db.commits)
    /\ \E b \in Branches : b # db.current_branch /\ db.branches[b] > db.head

\* The tip of the branch is on no other branch: it is not the tip or an
\* ancestor of the tip of any.
Unmerged(s, name) ==
    \A b \in Branches \ {name} :
        \/ s.branches[b] = 0
        \/ s.branches[name] \notin GetAllAncestors(s, s.branches[b])

\* C28: delete_branch(name, force) refuses and removes nothing when name is
\* the current branch, and without force also when the branch tip is not an
\* ancestor of any other branch tip; otherwise it removes that branch ref
\* and nothing else: no commit, no other ref, and HEAD stays.
C28_DeleteBranch ==
    \A name \in Branches, force \in BOOLEAN :
        LET r == EngineDeleteBranch(db, name, force)
            refused == \/ name = db.current_branch
                       \/ ~force /\ Unmerged(db, name)
        IN  db.branches[name] # 0
              => /\ refused => (r.err # "" /\ r.db = db)
                 /\ ~refused
                      => /\ r.err = ""
                         /\ r.db = [db EXCEPT !.branches[name] = 0]

\* C28 witness: a forced delete_branch has just removed a branch whose tip no
\* other branch reaches; the commit is still in the store.
C28_Witness ==
    /\ last.op = "delete_branch"
    /\ last.err = ""
    /\ \E b \in Branches : db.branches[b] = 0
    /\ \E c \in Commits :
          \A b \in Branches : c \notin GetAllAncestors(db, db.branches[b])

\* C29: tract reset --hard without --force exits with code 1 and leaves HEAD,
\* every branch ref and the rest of the store as they were; with --force it
\* exits with code 0 and HEAD is at the target.
C29_HardResetNeedsForce ==
    \A c \in Commits :
        LET refused == ResetCommand(db, c, "hard", FALSE)
            forced  == ResetCommand(db, c, "hard", TRUE)
        IN  /\ refused.out.exit_code = 1
            /\ refused.db = db
            /\ forced.out.exit_code = 0
            /\ forced.db.head = c

\* C29 witness: tract reset --hard has just been refused for a target other
\* than HEAD.
C29_Witness ==
    /\ last.op = "tract reset"
    /\ last.exit_code = 1
    /\ Len(db.commits) >= 2
    /\ db.head = Len(db.commits)
    /\ db.current_branch # Detached

(***************************************************************************)
(* Claims about the snapshot cache.                                        *)
(***************************************************************************)
\* C30: every snapshot in the cache has as many generation_configs and
\* commit_hashes as messages, and the message at each position is the message
\* of the commit whose hash is at that position, or of its latest EDIT.
C30_ParallelSequences ==
    \A k \in DOMAIN cache :
        LET snapshot == cache[k]
        IN  /\ Len(snapshot.generation_configs) = Len(snapshot.messages)
            /\ Len(snapshot.commit_hashes) = Len(snapshot.messages)
            /\ \A i \in DOMAIN snapshot.commit_hashes :
                  /\ CommitGet(db, snapshot.commit_hashes[i])
                  /\ \E c \in Commits :
                        /\ \/ c = snapshot.commit_hashes[i]
                           \/ db.commits[c].response_to = snapshot.commit_hashes[i]
                        /\ snapshot.messages[i] = BuildMessageForCommit(db, c)

CachedKeys(c) == {c[i].head_hash : i \in DOMAIN c}

\* The snapshots of the cache, whatever their order.
CachedSnapshots(c) == {c[i] : i \in DOMAIN c}

\* The key of the cache whose last use is the oldest in the log.
LeastRecentlyUsed(c, used) ==
    used[CHOOSE i \in DOMAIN used :
            /\ used[i] \in CachedKeys(c)
            /\ \A j \in 1..(i - 1) : used[j] \notin CachedKeys(c)]

\* C32: the cache never holds more than maxsize snapshots, one per key; a get
\* miss returns None and changes nothing, a get hit returns the snapshot and
\* keeps every snapshot; a put stores the snapshot under its key and, when
\* the key is new and the cache is full, evicts exactly the key whose last
\* use (put or get hit) is the oldest, and nothing otherwise.
C32_Lru ==
    [][/\ Len(cache') <= maxsize
       /\ Cardinality(CachedKeys(cache')) = Len(cache')
       /\ (last'.op = "get" /\ ~Has(cache, last'.key))
            => (last'.returned = NoSnapshot /\ cache' = cache)
       /\ (last'.op = "get" /\ Has(cache, last'.key))
            => /\ last'.returned \in CachedSnapshots(cache)
               /\ last'.returned.head_hash = last'.key
               /\ CachedSnapshots(cache') = CachedSnapshots(cache)
       /\ last'.op = "put"
            => LET Old(k) == CHOOSE s \in CachedSnapshots(cache) : s.head_hash = k
                   evicted == IF last'.key \notin CachedKeys(cache) /\ Len(cache) = maxsize
                              THEN {LeastRecentlyUsed(cache, Used)} ELSE {}
               IN  /\ last'.returned \in CachedSnapshots(cache')
                   /\ CachedKeys(cache') = (CachedKeys(cache) \ evicted) \cup {last'.key}
                   /\ \A k \in CachedKeys(cache') \ {last'.key} :
                         Old(k) \in CachedSnapshots(cache')]_vars

\* C32 witness: a put into a full cache has just evicted a key that was put
\* after another key still cached, which a get hit had used since.
C32_Witness ==
    /\ last.op = "put"
    /\ Len(cache) = maxsize
    /\ \E i, j \in DOMAIN last.used :
          /\ i < j
          /\ last.used[i] \notin CachedKeys(cache)
          /\ last.used[j] \in CachedKeys(cache)
          /\ last.used[i] > last.used[j]

\* The message a compile gives for the commit: its own or that of an EDIT of it.
IsMessageOf(s, message, commit_hash) ==
    \E c \in DOMAIN s.commits :
        /\ c = commit_hash \/ s.commits[c].response_to = commit_hash
        /\ message = BuildMessageForCommit(s, c)

\* The snapshot without the target: its hash and the config at the position of
\* the hash are gone, and so is one message, which is the target's.
SkipRemoved(s, snapshot, patched, target_hash) ==
    LET target_idx == IndexOf(snapshot.commit_hashes, target_hash)
    IN  \E i \in DOMAIN snapshot.messages :
            /\ IsMessageOf(s, snapshot.messages[i], target_hash)
            /\ patched = [snapshot EXCEPT
                             !.messages           = RemoveAt(@, i),
                             !.commit_count       = @ - 1,
                             !.token_count        = CountMessages(RemoveAt(snapshot.messages, i)),
                             !.generation_configs = RemoveAt(@, target_idx),
                             !.commit_hashes      = RemoveAt(@, target_idx)]

\* C33: an annotation with priority SKIP of a commit, made while HEAD has a
\* snapshot, leaves under HEAD that snapshot without the target's message,
\* config and hash when the target is among its commit_hashes, and that
\* snapshot unchanged when it is not.
C33_SkipPatch ==
    [][(/\ last'.op = "annotate"
        /\ last'.err = ""
        /\ db'.annotations[Len(db'.annotations)].priority = "SKIP"
        /\ Has(cache, db.head))
       => LET snapshot    == Get(cache, db.head).snapshot
              target_hash == db'.annotations[Len(db'.annotations)].target_hash
          IN  /\ Has(cache', db.head)
              /\ IF target_hash \in Range(snapshot.commit_hashes)
                 THEN SkipRemoved(db, snapshot, Get(cache', db.head).snapshot, target_hash)
                 ELSE Get(cache', db.head).snapshot = snapshot]_vars

\* C34: an EDIT committed on a HEAD that has a snapshot leaves a snapshot
\* under the new HEAD exactly when its response_to is among the commit_hashes
\* of the parent's snapshot; an annotation other than SKIP leaves HEAD's
\* snapshot as it was when the target is among its commit_hashes, and no
\* snapshot under HEAD when it is not; where no snapshot is left the next
\* compile is a full compile.
C34_PatchOrNone ==
    [][/\ (/\ last'.op = "commit"
           /\ last'.err = ""
           /\ db'.commits[db'.head].operation = "EDIT"
           /\ Has(cache, db.head))
          => LET parent_snapshot == Get(cache, db.head).snapshot
                 response_to     == db'.commits[db'.head].response_to
             IN  /\ Has(cache', db'.head)
                       <=> response_to \in Range(parent_snapshot.commit_hashes)
                 /\ ~Has(cache', db'.head)
                       => TractCompileOut(db', cache') = FullCompile(db', db'.head)
       /\ (/\ last'.op = "annotate"
           /\ last'.err = ""
           /\ db'.annotations[Len(db'.annotations)].priority # "SKIP"
           /\ Has(cache, db.head))
          => LET snapshot    == Get(cache, db.head).snapshot
                 target_hash == db'.annotations[Len(db'.annotations)].target_hash
             IN  IF target_hash \in Range(snapshot.commit_hashes)
                 THEN Has(cache', db.head) /\ Get(cache', db.head).snapshot = snapshot
                 ELSE /\ ~Has(cache', db.head)
                      /\ TractCompileOut(db', cache') = FullCompile(db', db.head)]_vars

\* C34 witness: the last commit is an EDIT that was patched into the snapshot
\* of its parent, after an annotation other than SKIP had left that snapshot
\* in the cache.
C34_Witness ==
    /\ last.op = "commit" /\ last.err = "" /\ db.head = Len(db.commits)
    /\ db.commits[db.head].operation = "EDIT"
    /\ Has(cache, db.head)
    /\ Has(cache, db.commits[db.head].parent_hash)
    /\ db.commits[db.head].response_to \in Range(Get(cache, db.head).snapshot.commit_hashes)
    /\ \E a \in DOMAIN db.annotations :
          /\ db.annotations[a].priority # "SKIP"
          /\ db.annotations[a].target_hash
                \in Range(Get(cache, db.commits[db.head].parent_hash).snapshot.commit_hashes)

(***************************************************************************)
(* Claims about aggregation, replay and batches.                           *)
(***************************************************************************)
\* The messages of a full compile before they are aggregated.
UnaggregatedMessages(s, head_hash) ==
    LET commits      == WalkChain(s, head_hash, 0, 0)
        edit_map     == BuildEditMap(s, commits, 0)
        priority_map == BuildPriorityMap(s, commits, 0)
        effective    == BuildEffectiveCommits(s, commits, edit_map, priority_map)
    IN  IF commits = <<>> THEN <<>> ELSE BuildMessages(s, effective, edit_map, FALSE)

\* The contents of messages[a..b] joined by blank lines.
RECURSIVE JoinContents(_, _, _)
JoinContents(messages, a, b) ==
    IF a = b THEN messages[a].content
    ELSE JoinContents(messages, a, b - 1) \o <<"\n\n">> \o messages[b].content

\* The positions at which a run of same-role messages starts.
RunStarts(messages) ==
    {i \in DOMAIN messages : i = 1 \/ messages[i].role # messages[i - 1].role}

\* The last position of the run that starts at a.
RunEnd(messages, a) ==
    CHOOSE b \in a..Len(messages) :
        /\ \A i \in a..b : messages[i].role = messages[a].role
        /\ b = Len(messages) \/ messages[b + 1].role # messages[a].role

\* C35: the messages of a full compile at HEAD have no two neighbours of the
\* same role; there is one per maximal run of same-role messages, in order,
\* and it carries the run's role and the run's contents joined by blank lines.
C35_Aggregated ==
    LET input  == UnaggregatedMessages(db, db.head)
        output == FullCompile(db, db.head).messages
    IN  /\ \A k \in 1..(Len(output) - 1) : output[k].role # output[k + 1].role
        /\ Len(output) = Cardinality(RunStarts(input))
        /\ \A a \in RunStarts(input) :
              LET k == Cardinality({i \in RunStarts(input) : i <= a})
              IN  /\ output[k].role = input[a].role
                  /\ output[k].content = JoinContents(input, a, RunEnd(input, a))

\* C35 witness: HEAD compiles a run of two messages of one role into one
\* message, next to a message of another role.
C35_Witness ==
    LET input  == UnaggregatedMessages(db, db.head)
        output == FullCompile(db, db.head).messages
    IN  /\ Len(output) = 2
        /\ \E a \in RunStarts(input) : RunEnd(input, a) = a + 1

\* The errors with which rebase refuses before it replays anything.
RebaseRefusals == {"RebaseError", "BranchNotFoundError", "SemanticSafetyError"}

\* The range holds an EDIT of a commit that comes earlier in the range.
EditsReplayed(s, commits_to_replay) ==
    \E i, j \in DOMAIN commits_to_replay :
        /\ i < j
        /\ s.commits[commits_to_replay[j]].operation = "EDIT"
        /\ s.commits[commits_to_replay[j]].response_to = commits_to_replay[i]

\* The copies, made in order after the rows of s, respond to the copies.
CopiesRemapped(s, t, commits_to_replay) ==
    LET Copy(i) == Len(s.commits) + i
    IN  /\ Len(t.commits) = Len(s.commits) + Len(commits_to_replay)
        /\ \A i, j \in DOMAIN commits_to_replay :
              (/\ i < j
               /\ s.commits[commits_to_replay[j]].operation = "EDIT"
               /\ s.commits[commits_to_replay[j]].response_to = commits_to_replay[i])
              => t.commits[Copy(j)].response_to = Copy(i)

\* C36: a rebase that goes on to replay a range in which an EDIT follows its
\* target succeeds, and the copy of the EDIT responds to the copy of the
\* target.
C36_EditRemapped ==
    [][\A b \in Branches, r \in RebaseResolvers :
          LET commits_to_replay == CommitsToReplay(db, db.branches[b])
          IN  (/\ last'.op = "rebase"
               /\ db.branches[b] # 0
               /\ Rebase(db, b, r).err = last'.err
               /\ last'.err \notin RebaseRefusals
               /\ ~NothingToReplay(db, db.head, db.branches[b])
               /\ EditsReplayed(db, commits_to_replay))
              => /\ last'.err = ""
                 /\ CopiesRemapped(db, db', commits_to_replay)]_vars

\* C37: cherry-picking an APPEND, or an EDIT whose target HEAD reaches,
\* succeeds and adds one commit with the original's content hash, operation
\* and response_to on the HEAD from before; HEAD and the attached branch move
\* to it, and the rows from before are unchanged.
C37_CherryPickReplays ==
    \A c \in Commits, resolver \in Resolvers :
        LET r   == CherryPick(db, c, resolver)
            old == Len(db.commits)
        IN  (\/ db.commits[c].operation = "APPEND"
             \/ /\ db.commits[c].operation = "EDIT"
                /\ db.commits[c].response_to \in GetAllAncestors(db, db.head))
            => /\ r.err = ""
               /\ Len(r.db.commits) = old + 1
               /\ SubSeq(r.db.commits, 1, old) = db.commits
               /\ r.db.commits[old + 1].content_hash = db.commits[c].content_hash
               /\ r.db.commits[old + 1].operation = db.commits[c].operation
               /\ r.db.commits[old + 1].response_to = db.commits[c].response_to
               /\ r.db.commits[old + 1].parent_hash = db.head
               /\ r.db.head = old + 1
               /\ db.current_branch # Detached
                   => r.db.branches[db.current_branch] = old + 1

\* C39: a rebase onto a branch whose tip lies above the current tip returns
\* with the store, the branch refs and HEAD as they were: the current tip is
\* what it returns as new_head, and the branch is not moved up to the target.
C39_RebaseBehindTarget ==
    \A b \in Branches, resolver \in RebaseResolvers :
        LET r == Rebase(db, b, resolver)
        IN  (/\ db.current_branch # Detached
             /\ db.head # 0
             /\ db.branches[b] # 0
             /\ db.head # db.branches[b]
             /\ db.head \in GetAllAncestors(db, db.branches[b]))
            => /\ r.err = ""
               /\ r.db = db
               /\ r.db.head # db.branches[b]

\* C39 witness: a rebase has just returned on a HEAD that lies under the tip
\* of another branch.
C39_Witness ==
    /\ last.op = "rebase"
    /\ last.err = ""
    /\ db.current_branch # Detached
    /\ db.head # 0
    /\ \E b \in Branches :
          /\ b # db.current_branch
          /\ db.branches[b] # 0
          /\ db.branches[b] # db.head
          /\ db.head \in GetAllAncestors(db, db.branches[b])

\* C40: while a batch block is open nothing becomes durable; when the
\* outermost block ends without an exception, all the session holds becomes
\* durable at once; when a block raises, the session is rolled back, nothing
\* of the block is durable and HEAD is the HEAD the block started from; either
\* way the commit the block had stashed is back in place.
C40_Batch ==
    [][/\ (batch # <<>> /\ ~(last'.op = "batch exit" /\ last'.err = "" /\ batch' = <<>>))
            => disk' = disk
       /\ (last'.op = "batch exit" /\ last'.err = "" /\ batch' = <<>>)
            => (disk' = db /\ db' = db)
       /\ (last'.op = "batch exit" /\ last'.err # "")
            => /\ db' = disk'
               /\ disk' = disk
               /\ db'.head = batch[Len(batch)].entry_head
       /\ last'.op = "batch exit"
            => batch' = SubSeq(batch, 1, Len(batch) - 1)]_vars

====
